---- MODULE Spec2Model ----
(***************************************************************************)
(* A model of the GC-log parsers of GCscripts.                             *)
(*                                                                         *)
(* G1EnhancedParser (parse_g1_regions.py) reads a log buffer line by line. *)
(* Each line is classified by an ordered chain of regular expressions; the *)
(* handler of the first pattern that matches appends SizingEntry records   *)
(* to sizing_entries and reads or updates the accumulator _current_eval.   *)
(*                                                                         *)
(* A log line is modelled by what the patterns see of it:                  *)
(*   ts   which timestamp token it carries ("trad" for "[12.345s]",        *)
(*        "modern" for "[2025-..T..][pid][tid][level][gc..]", "none"),     *)
(*   tok  the token itself (the clock value of the line),                  *)
(*   cap  a function from the names of the patterns that match the line to *)
(*        the tuple of groups that pattern captures,                       *)
(*   ev   the evaluation the line belongs to (a tag the parser never sees; *)
(*        it is only used to state where a value came from).               *)
(*                                                                         *)
(* Python's None is modelled by None for number-valued fields and by       *)
(* NoneStr for string-valued ones; an int and the float of the same value  *)
(* are the same number (30 == 30.0 in Python).                             *)
(***************************************************************************)
EXTENDS Integers, Sequences, FiniteSets, TLC

VARIABLES pc, lines, buf_modern, saw_modern, region_data, sizing_entries, has_pid_tid, has_sizing_data, region_size, current_eval, cur_src, entry_src, name_in, pause_name, ts_in, ts_out, heap_pc, gc_data, scaling_data, prev_total_heap, data_df, scaling_data_df, buffer, run, app, contents, filename, decoded_entries, combined_log_content, result, pause_summary

vars == <<pc, lines, buf_modern, saw_modern, region_data, sizing_entries, has_pid_tid, has_sizing_data, region_size, current_eval, cur_src, entry_src, name_in, pause_name, ts_in, ts_out, heap_pc, gc_data, scaling_data, prev_total_heap, data_df, scaling_data_df, buffer, run, app, contents, filename, decoded_entries, combined_log_content, result, pause_summary>>

parser_vars == <<region_data, sizing_entries, has_pid_tid, has_sizing_data, region_size, current_eval>>

name_vars == <<name_in, pause_name>>

sizing_vars == <<pc, lines, buf_modern, saw_modern, region_data, sizing_entries, has_pid_tid, has_sizing_data, region_size, current_eval, cur_src, entry_src>>

token_vars == <<ts_in, ts_out>>

heap_vars == <<heap_pc, gc_data, scaling_data, prev_total_heap, data_df, scaling_data_df>>

buffer_vars == <<buffer, run>>

upload_vars == <<app, contents, filename, decoded_entries, combined_log_content, result>>

(***************************************************************************)
(* Bounds of the model.                                                    *)
(***************************************************************************)
\* lines of a buffer drawn from the full vocabulary (Spec)
MaxLines == 2

\* characters of a generated timestamp token (SpecToken)
MaxTokLen == 3

\* lines of a buffer of pause and cpu lines (SpecHeap)
MaxHeapLines == 3

\* lines of a buffer chosen as a whole (SpecBuf, SpecReuse)
MaxBufLines == 2

\* calls of parse_log_content on one parser (SpecReuse)
MaxRuns == 2

\* lines of a buffer drawn from the lines of evaluation sequences (SpecEval)
MaxEvalLines == 3

\* lines of a buffer of tagged evaluations (SpecTagged)
MaxTaggedLines == 4

\* evaluations a buffer of tagged lines is made of
MaxEval == 2

(***************************************************************************)
(* Python values.                                                          *)
(***************************************************************************)
None == 0 - 1

NoneStr == "None"

EmptyDict == [k \in {} |-> None]

\* no value returned yet by a callback
NoResult == [kind |-> "none"]

\* dict.get(key): the value, or None when the key is absent
Get(d, k) == IF k \in DOMAIN d THEN d[k] ELSE None

\* dict[key] = value
Put(d, k, v) == (k :> v) @@ d

\* dict.setdefault(key, value)
SetDefault(d, k, v) == IF k \in DOMAIN d THEN d ELSE (k :> v) @@ d

\* truth value of an Optional[int]: None and 0 are false
Truthy(v) == v # None /\ v # 0

RegionTypes == {"Eden", "Survivor", "Old", "Humongous"}

\* SizingEntry with every optional field at its default
BlankEntry == [timestamp |-> None, sizing_type |-> NoneStr, sizing_mode |-> NoneStr, evaluation_interval_ms |-> None, uncommit_delay_ms |-> None, inactive_regions |-> None, inactive_required |-> None, requested_regions |-> None, total_empty_regions |-> None, uncommit_regions |-> None, uncommit_mb |-> None, shrink_mb |-> None, heap_size_mb |-> None, heap_bytes |-> None, min_heap_bytes |-> None, region_id |-> None, last_access_ms |-> None, transition_state |-> NoneStr, notes |-> NoneStr]

\* SizingEntry(timestamp=.., sizing_type=.., **kw)
SizingEntry(timestamp, sizing_type, kw) == kw @@ [BlankEntry EXCEPT !.timestamp = timestamp, !.sizing_type = sizing_type]

\* what one handler of _parse_sizing_line leaves behind: the entry list, the
\* accumulator, the accumulator keys it assigned and the accumulator keys
\* whose values it copied into the entry it emitted
Res(entries, cur, wrote, used) == [entries |-> entries, cur |-> cur, wrote |-> wrote, used |-> used]

(***************************************************************************)
(* Strings.                                                                *)
(***************************************************************************)
\* Python's "sub in str"
Contains(str, sub) == \E i \in 1..(Len(str) - Len(sub) + 1) : SubSeq(str, i, i + Len(sub) - 1) = sub

Char(str, i) == SubSeq(str, i, i)

\* str[i-1:j], empty when the slice is
Slice(str, i, j) == IF i <= j /\ 1 <= i /\ j <= Len(str) THEN SubSeq(str, i, j) ELSE ""

Digits == <<"0", "1", "2", "3", "4", "5", "6", "7", "8", "9">>

IsDigit(c) == \E i \in 1..10 : Digits[i] = c

DigitVal(c) == (CHOOSE i \in 1..10 : Digits[i] = c) - 1

AllDigits(str) == \A i \in 1..Len(str) : IsDigit(Char(str, i))

\* the number a string of digits denotes (0 for the empty string)
RECURSIVE NumVal(_)
NumVal(str) == IF str = "" THEN 0 ELSE NumVal(SubSeq(str, 1, Len(str) - 1)) * 10 + DigitVal(Char(str, Len(str)))

\* str.replace(old, new)
RECURSIVE Replace(_, _, _)
Replace(str, old, new) ==
    IF Len(str) < Len(old) THEN str
    ELSE IF SubSeq(str, 1, Len(old)) = old THEN new \o Replace(SubSeq(str, Len(old) + 1, Len(str)), old, new)
    ELSE Char(str, 1) \o Replace(SubSeq(str, 2, Len(str)), old, new)

\* the first position of one of the characters in the string, 0 when none
FirstOf(str, chars) ==
    LET hits == {i \in 1..Len(str) : Char(str, i) \in chars}
    IN IF hits = {} THEN 0 ELSE CHOOSE i \in hits : \A j \in hits : i <= j

(***************************************************************************)
(* Timestamp tokens.  A token is the text a timestamp pattern captured: a  *)
(* string over the characters 0-9 T : - . +.  A float of seconds is the    *)
(* record [s, ms] that stands for s + ms/1000 with 0 <= ms < 1000 (the log *)
(* prints three decimals); an exception is the record [exc].               *)
(***************************************************************************)
Time(s, ms) == [s |-> s, ms |-> ms]

Zero == Time(0, 0)

Raised(kind) == [exc |-> kind]

IsRaised(v) == DOMAIN v = {"exc"}

\* the milliseconds of a fraction: its first three digits
Millis(frac) == NumVal(SubSeq(frac \o "000", 1, 3))

\* float(str) on a token: [+-] digits [. digits] with a digit somewhere
float_of(str) ==
    LET signed == Len(str) > 0 /\ Char(str, 1) \in {"+", "-"}
        body == IF signed THEN SubSeq(str, 2, Len(str)) ELSE str
        dot == FirstOf(body, {"."})
        whole == IF dot = 0 THEN body ELSE SubSeq(body, 1, dot - 1)
        frac == IF dot = 0 THEN "" ELSE SubSeq(body, dot + 1, Len(body))
    IN IF ~(AllDigits(whole) /\ AllDigits(frac) /\ (whole # "" \/ frac # "")) THEN Raised("ValueError")
       ELSE IF signed /\ Char(str, 1) = "-"
            THEN (IF Millis(frac) = 0 THEN Time(0 - NumVal(whole), 0) ELSE Time(0 - NumVal(whole) - 1, 1000 - Millis(frac)))
            ELSE Time(NumVal(whole), Millis(frac))

IsLeap(y) == y % 4 = 0 /\ (y % 100 # 0 \/ y % 400 = 0)

DaysIn(y, m) == IF m = 2 THEN (IF IsLeap(y) THEN 29 ELSE 28) ELSE IF m \in {4, 6, 9, 11} THEN 30 ELSE 31

\* the days from 1970-01-01 to the day y-m-d of the proleptic Gregorian calendar
DaysFromEpoch(y, m, d) ==
    LET y1 == IF m <= 2 THEN y - 1 ELSE y
        era == y1 \div 400
        yoe == y1 - era * 400
        doy == (153 * (IF m > 2 THEN m - 3 ELSE m + 9) + 2) \div 5 + d - 1
        doe == yoe * 365 + yoe \div 4 - yoe \div 100 + doy
    IN era * 146097 + doe - 719468

\* "HH", "HH:MM", "HH:MM:SS": the digits of the fields, "" when str is none of these
ClockFields(str) ==
    IF Len(str) = 2 THEN str \o "0000"
    ELSE IF Len(str) = 5 /\ Char(str, 3) = ":" THEN SubSeq(str, 1, 2) \o SubSeq(str, 4, 5) \o "00"
    ELSE IF Len(str) = 8 /\ Char(str, 3) = ":" /\ Char(str, 6) = ":" THEN SubSeq(str, 1, 2) \o SubSeq(str, 4, 5) \o SubSeq(str, 7, 8)
    ELSE ""

\* the fields of an offset, which may also come without colons: "HHMM", "HHMMSS"
ZoneFields(str) == IF Len(str) \in {4, 6} /\ AllDigits(str) THEN SubSeq(str \o "00", 1, 6) ELSE ClockFields(str)

\* the seconds "HHMMSS" denotes, -1 when it is not a time of day
ClockSeconds(fields) ==
    IF Len(fields) # 6 \/ ~AllDigits(fields) THEN 0 - 1
    ELSE LET hh == NumVal(SubSeq(fields, 1, 2))
             mm == NumVal(SubSeq(fields, 3, 4))
             ss == NumVal(SubSeq(fields, 5, 6))
         IN IF hh < 24 /\ mm < 60 /\ ss < 60 THEN hh * 3600 + mm * 60 + ss ELSE 0 - 1

\* datetime.fromisoformat(str).timestamp() on the extended ISO 8601 format
\* YYYY-MM-DDTHH[:MM[:SS[.f+]]][(+|-)HH[[:]MM[[:]SS]]]; a time without an offset is
\* a local time, and the zone of the machine is UTC
fromisoformat_timestamp(str) ==
    LET rest == Slice(str, 12, Len(str))
        zpos == FirstOf(rest, {"+", "-"})
        local == IF zpos = 0 THEN rest ELSE Slice(rest, 1, zpos - 1)
        zone == IF zpos = 0 THEN "" ELSE Slice(rest, zpos + 1, Len(rest))
        dot == FirstOf(local, {"."})
        clock == IF dot = 0 THEN local ELSE Slice(local, 1, dot - 1)
        frac == IF dot = 0 THEN "" ELSE Slice(local, dot + 1, Len(local))
        year == NumVal(SubSeq(str, 1, 4))
        month == NumVal(SubSeq(str, 6, 7))
        day == NumVal(SubSeq(str, 9, 10))
        secs == ClockSeconds(ClockFields(clock))
        offset == IF zpos = 0 THEN 0 ELSE ClockSeconds(ZoneFields(zone))
        date_ok == /\ Len(str) >= 11
                   /\ AllDigits(SubSeq(str, 1, 4)) /\ Char(str, 5) = "-"
                   /\ AllDigits(SubSeq(str, 6, 7)) /\ Char(str, 8) = "-"
                   /\ AllDigits(SubSeq(str, 9, 10)) /\ Char(str, 11) = "T"
                   /\ year >= 1 /\ month \in 1..12 /\ day \in 1..DaysIn(year, month)
        time_ok == /\ secs >= 0
                   /\ (dot # 0 => (Len(clock) = 8 /\ frac # "" /\ AllDigits(frac)))
                   /\ offset >= 0
    IN IF ~date_ok THEN Raised("ValueError")
       ELSE IF ~time_ok THEN Raised("ValueError")
       ELSE Time(DaysFromEpoch(year, month, day) * 86400 + secs - (IF zpos # 0 /\ Char(rest, zpos) = "-" THEN 0 - offset ELSE offset), Millis(frac))

\* the body of the try statement of _parse_timestamp
timestamp_try(str) ==
    IF Contains(str, "T")
    THEN fromisoformat_timestamp(Replace(Replace(str, "Z", "+00:00"), "+0000", "+00:00"))
    ELSE float_of(str)

\* changed: the elapsed-seconds branch sits outside the try statement
parse_timestamp_unguarded(str) ==
    IF Contains(str, "T")
    THEN (LET r == fromisoformat_timestamp(Replace(Replace(str, "Z", "+00:00"), "+0000", "+00:00")) IN IF IsRaised(r) THEN Zero ELSE r)
    ELSE float_of(str)

\* _parse_timestamp: the bare except turns every exception into 0.0
parse_timestamp(str) ==
    LET r == timestamp_try(str)
    IN IF IsRaised(r) THEN Zero ELSE r

(***************************************************************************)
(* _parse_sizing_line, one operator per pattern, in the order of the code. *)
(* g is the tuple of groups the pattern captured, timestamp the token.     *)
(***************************************************************************)
sizing_status(entries, cur, timestamp, g) ==
    LET sizing_type == IF g[1] = "enabled" THEN "heap_sizing_enabled" ELSE "heap_sizing_disabled"
        mode == IF g[2] # NoneStr THEN g[2] ELSE g[1]
    IN Res(Append(entries, SizingEntry(timestamp, sizing_type, [sizing_mode |-> mode])), cur, {}, {})

sizing_init(entries, cur, timestamp, g) ==
    Res(Append(entries, SizingEntry(timestamp, "heap_sizing_init", [sizing_mode |-> g[1]])), cur, {}, {})

sizing_params(entries, cur, timestamp, g) ==
    Res(Append(entries, SizingEntry(timestamp, "sizing_parameters", [evaluation_interval_ms |-> g[1], uncommit_delay_ms |-> g[2]])), cur, {}, {})

sizing_params_new(entries, cur, timestamp, g) ==
    Res(Append(entries, SizingEntry(timestamp, "sizing_parameters", [evaluation_interval_ms |-> g[1] * 1000, uncommit_delay_ms |-> g[2] * 1000, inactive_required |-> g[3]])), cur, {}, {})

uncommit(entries, cur, timestamp, g) ==
    Res(Append(entries, SizingEntry(timestamp, "time_based_uncommit", [uncommit_regions |-> g[1], uncommit_mb |-> g[2], inactive_regions |-> g[3]])), EmptyDict, {}, {})

shrink_eval(entries, cur, timestamp, g) ==
    Res(Append(entries, SizingEntry(timestamp, "time_based_evaluation_shrink", [shrink_mb |-> g[1]])), cur, {}, {})

\* changed: the legacy "no uncommit needed" line clears the accumulator without
\* recording the outcome
no_uncommit_silent(entries, cur, timestamp, g) ==
    Res(entries, EmptyDict, {}, {})

no_uncommit(entries, cur, timestamp, g) ==
    Res(Append(entries, SizingEntry(timestamp, "time_based_evaluation_no_uncommit", EmptyDict)), EmptyDict, {}, {})

shrink_completed(entries, cur, timestamp, g) ==
    Res(Append(entries, SizingEntry(timestamp, "heap_shrink_completed", [heap_size_mb |-> g[1]])), cur, {}, {})

heap_shrink_details(entries, cur, timestamp, g) ==
    Res(Append(entries, SizingEntry(timestamp, "heap_shrink_details", [uncommit_regions |-> g[1], uncommit_mb |-> g[2], heap_size_mb |-> g[3]])), EmptyDict, {}, {})

time_based_uncommitted(entries, cur, timestamp, g) ==
    Res(Append(entries, SizingEntry(timestamp, "heap_shrink_details", [uncommit_regions |-> g[1], uncommit_mb |-> g[2], heap_size_mb |-> g[3]])), EmptyDict, {}, {})

\* changed: the start marker updates the timestamp of the accumulator in place
eval_start_merge(entries, cur, timestamp, g) ==
    Res(Append(entries, SizingEntry(timestamp, "uncommit_evaluation_start", EmptyDict)), Put(cur, "timestamp", timestamp), {"timestamp"}, {})

eval_start(entries, cur, timestamp, g) ==
    Res(Append(entries, SizingEntry(timestamp, "uncommit_evaluation_start", EmptyDict)), [timestamp |-> timestamp], {"timestamp"}, {})

eval_scan(entries, cur, timestamp, g) ==
    Res(Append(entries, SizingEntry(timestamp, "uncommit_evaluation_scan", EmptyDict)), cur, {}, {})

\* changed: a scan that finds no inactive region is recorded as a no-uncommit
\* outcome
eval_scan_result_flush(entries, cur, timestamp, g) ==
    LET c1 == SetDefault(cur, "timestamp", timestamp)
        c2 == Put(Put(c1, "inactive_regions", g[1]), "total_empty_regions", g[2])
    IN Res(Append(entries, SizingEntry(timestamp, IF g[1] = 0 THEN "time_based_evaluation_no_uncommit" ELSE "time_based_scan_result", [inactive_regions |-> g[1], total_empty_regions |-> g[2]])), c2, {"inactive_regions", "total_empty_regions"} \cup ({"timestamp"} \ DOMAIN cur), {})

eval_scan_result(entries, cur, timestamp, g) ==
    LET c1 == SetDefault(cur, "timestamp", timestamp)
        c2 == Put(Put(c1, "inactive_regions", g[1]), "total_empty_regions", g[2])
    IN Res(Append(entries, SizingEntry(timestamp, "time_based_scan_result", [inactive_regions |-> g[1], total_empty_regions |-> g[2]])), c2, {"inactive_regions", "total_empty_regions"} \cup ({"timestamp"} \ DOMAIN cur), {})

\* the three keys every decision line stores, 'entry' being a reference to the
\* entry just appended (an index into sizing_entries: entries are only appended)
eval_found(entries, cur, timestamp, g) ==
    LET inactive == g[1]
        requested == g[2]
        entry == SizingEntry(timestamp, IF inactive # 0 THEN "time_based_evaluation_shrink" ELSE "time_based_evaluation_no_uncommit", [inactive_regions |-> inactive, requested_regions |-> requested])
        appended == Append(entries, entry)
        c1 == [timestamp |-> timestamp, inactive_regions |-> inactive, requested_regions |-> requested, entry |-> Len(appended)]
    IN IF inactive = 0
       THEN Res(appended, EmptyDict, {}, {})
       ELSE Res(appended, c1, DOMAIN c1, {})

\* changed: as many candidates as the minimum are not enough
eval_found_min_strict(entries, cur, timestamp, g) ==
    LET inactive == g[1]
        required == g[2]
        entry == SizingEntry(timestamp, IF inactive <= required THEN "time_based_evaluation_no_uncommit" ELSE "time_based_evaluation_shrink", [inactive_regions |-> inactive, inactive_required |-> required, requested_regions |-> IF inactive > required THEN required ELSE None])
        appended == Append(entries, entry)
        c1 == [timestamp |-> timestamp, inactive_regions |-> inactive, inactive_required |-> required, requested_regions |-> required, entry |-> Len(appended)]
    IN IF inactive > required
       THEN Res(appended, c1, DOMAIN c1, {})
       ELSE Res(appended, EmptyDict, {}, {})

eval_found_min(entries, cur, timestamp, g) ==
    LET inactive == g[1]
        required == g[2]
        entry == SizingEntry(timestamp, IF inactive < required THEN "time_based_evaluation_no_uncommit" ELSE "time_based_evaluation_shrink", [inactive_regions |-> inactive, inactive_required |-> required, requested_regions |-> IF inactive >= required THEN required ELSE None])
        appended == Append(entries, entry)
        c1 == [timestamp |-> timestamp, inactive_regions |-> inactive, inactive_required |-> required, requested_regions |-> required, entry |-> Len(appended)]
    IN IF inactive >= required
       THEN Res(appended, c1, DOMAIN c1, {})
       ELSE Res(appended, EmptyDict, {}, {})

eval_found_uncommitting(entries, cur, timestamp, g) ==
    LET entry == SizingEntry(timestamp, "time_based_evaluation_shrink", [inactive_regions |-> g[1], requested_regions |-> g[2], shrink_mb |-> g[3]])
        appended == Append(entries, entry)
        c1 == [timestamp |-> timestamp, inactive_regions |-> g[1], requested_regions |-> g[2], shrink_mb |-> g[3], entry |-> Len(appended)]
    IN Res(appended, c1, DOMAIN c1, {})

heap_eval_shrink(entries, cur, timestamp, g) ==
    LET entry == SizingEntry(timestamp, "time_based_evaluation_shrink", [inactive_regions |-> g[2], inactive_required |-> g[3], shrink_mb |-> g[1], heap_bytes |-> g[4], min_heap_bytes |-> g[5]])
        appended == Append(entries, entry)
        c1 == [timestamp |-> timestamp, inactive_regions |-> g[2], inactive_required |-> g[3], heap_bytes |-> g[4], min_heap_bytes |-> g[5], shrink_mb |-> g[1], entry |-> Len(appended)]
    IN Res(appended, c1, DOMAIN c1, {})

heap_eval_no_action(entries, cur, timestamp, g) ==
    Res(Append(entries, SizingEntry(timestamp, "time_based_evaluation_no_uncommit", [inactive_regions |-> g[1], inactive_required |-> g[2], heap_bytes |-> g[3], min_heap_bytes |-> g[4]])), EmptyDict, {}, {})

eval_summary(entries, cur, timestamp, g) ==
    LET shrink_mb == g[1]
        eval_entry == Get(cur, "entry")
        entries1 == IF eval_entry # None
                    THEN [entries EXCEPT ![eval_entry].shrink_mb = shrink_mb]
                    ELSE Append(entries, SizingEntry(timestamp, "time_based_evaluation_shrink", [shrink_mb |-> shrink_mb]))
        c1 == IF eval_entry # None THEN cur ELSE Put(cur, "entry", Len(entries1))
        c2 == SetDefault(Put(c1, "shrink_mb", shrink_mb), "timestamp", timestamp)
    IN Res(entries1, c2, {"shrink_mb"} \cup ({"entry", "timestamp"} \ DOMAIN cur), {})

eval_no_action(entries, cur, timestamp, g) ==
    Res(Append(entries, SizingEntry(timestamp, "time_based_evaluation_no_uncommit", [inactive_regions |-> g[1], inactive_required |-> g[2], heap_bytes |-> g[3], min_heap_bytes |-> g[4]])), EmptyDict, {}, {})

\* changed: the simple "no uncommit needed" line leaves the accumulator alone
eval_no_action_simple_keep(entries, cur, timestamp, g) ==
    Res(Append(entries, SizingEntry(timestamp, "time_based_evaluation_no_uncommit", EmptyDict)), cur, {}, {})

eval_no_action_simple(entries, cur, timestamp, g) ==
    Res(Append(entries, SizingEntry(timestamp, "time_based_evaluation_no_uncommit", EmptyDict)), EmptyDict, {}, {})

time_based_request(entries, cur, timestamp, g) ==
    LET shrink_mb == g[1]
        candidates == g[2]
        eval_entry == Get(cur, "entry")
        entries1 == IF eval_entry # None
                    THEN [entries EXCEPT ![eval_entry].shrink_mb = shrink_mb, ![eval_entry].requested_regions = IF @ = None THEN candidates ELSE @]
                    ELSE Append(entries, SizingEntry(timestamp, "time_based_evaluation_shrink", [shrink_mb |-> shrink_mb, requested_regions |-> candidates]))
        c1 == IF eval_entry # None THEN cur ELSE Put(cur, "entry", Len(entries1))
        c2 == SetDefault(Put(Put(c1, "shrink_mb", shrink_mb), "requested_regions", candidates), "timestamp", timestamp)
    IN Res(Append(entries1, SizingEntry(timestamp, "time_based_request", [shrink_mb |-> shrink_mb, requested_regions |-> candidates])), c2, {"shrink_mb", "requested_regions"} \cup ({"entry", "timestamp"} \ DOMAIN cur), {})

time_based_processing(entries, cur, timestamp, g) ==
    Res(Append(entries, SizingEntry(timestamp, "time_based_processing", [uncommit_regions |-> g[1], total_empty_regions |-> g[2]])), Put(Put(cur, "uncommit_regions", g[1]), "total_empty_regions", g[2]), {"uncommit_regions", "total_empty_regions"}, {})

\* changed: the estimate forgets the region size
estimate_mb_count(deactivated, rsize) == IF rsize # 0 THEN deactivated ELSE 0

\* the size of N deactivated regions when the accumulator holds no shrink_mb
estimate_mb(deactivated, rsize) == IF rsize # 0 THEN deactivated * rsize ELSE 0

\* changed: inactive_regions is taken from the accumulator as it is, without
\* the default of the deactivated count
time_based_deactivated_no_default(entries, cur, timestamp, g, rsize) ==
    LET deactivated == g[1]
        inactive == Get(cur, "inactive_regions")
        shrink0 == Get(cur, "shrink_mb")
        requested0 == Get(cur, "requested_regions")
        shrink_mb == IF shrink0 = None THEN estimate_mb(deactivated, rsize) ELSE shrink0
        from_required == requested0 = None /\ Truthy(Get(cur, "inactive_required"))
        requested == IF from_required THEN Get(cur, "inactive_required") ELSE requested0
        entry == SizingEntry(timestamp, "time_based_uncommit", [inactive_regions |-> inactive, requested_regions |-> requested, uncommit_regions |-> deactivated, uncommit_mb |-> IF shrink_mb # None THEN shrink_mb ELSE 0, total_empty_regions |-> Get(cur, "total_empty_regions")])
        used == ({"inactive_regions", "shrink_mb", "requested_regions", "total_empty_regions"} \cap DOMAIN cur) \cup (IF from_required THEN {"inactive_required"} ELSE {})
    IN Res(Append(entries, entry), EmptyDict, {}, used)

\* rsize is self._region_size
time_based_deactivated(entries, cur, timestamp, g, rsize) ==
    LET deactivated == g[1]
        inactive0 == Get(cur, "inactive_regions")
        shrink0 == Get(cur, "shrink_mb")
        requested0 == Get(cur, "requested_regions")
        inactive == IF inactive0 = None THEN deactivated ELSE inactive0
        shrink_mb == IF shrink0 = None THEN estimate_mb(deactivated, rsize) ELSE shrink0
        from_required == requested0 = None /\ Truthy(Get(cur, "inactive_required"))
        requested == IF from_required THEN Get(cur, "inactive_required") ELSE requested0
        entry == SizingEntry(timestamp, "time_based_uncommit", [inactive_regions |-> inactive, requested_regions |-> requested, uncommit_regions |-> deactivated, uncommit_mb |-> IF shrink_mb # None THEN shrink_mb ELSE 0, total_empty_regions |-> Get(cur, "total_empty_regions")])
        used == ({"inactive_regions", "shrink_mb", "requested_regions", "total_empty_regions"} \cap DOMAIN cur) \cup (IF from_required THEN {"inactive_required"} ELSE {})
    IN Res(Append(entries, entry), EmptyDict, {}, used)

time_based_candidate(entries, cur, timestamp, g) ==
    Res(Append(entries, SizingEntry(timestamp, "time_based_candidate", [region_id |-> g[1], last_access_ms |-> g[2]])), cur, {}, {})

time_based_deactivating_region(entries, cur, timestamp, g) ==
    Res(Append(entries, SizingEntry(timestamp, "time_based_deactivate_region", [region_id |-> g[1], last_access_ms |-> g[2]])), cur, {}, {})

region_transition(entries, cur, timestamp, g) ==
    Res(Append(entries, SizingEntry(timestamp, "region_state_transition", [region_id |-> g[1], transition_state |-> g[2] \o "->" \o g[3], last_access_ms |-> g[4]])), cur, {}, {})

Matches(ln, pattern) == pattern \in DOMAIN ln.cap

\* the patterns of _parse_sizing_line in the order the code tries them
SizingPatterns == <<"sizing_status", "sizing_init", "sizing_params", "sizing_params_new", "uncommit", "shrink_eval", "no_uncommit", "shrink_completed", "heap_shrink_details", "time_based_uncommitted", "eval_start", "eval_scan", "eval_scan_result", "eval_found", "eval_found_min", "eval_found_uncommitting", "heap_eval_shrink", "heap_eval_no_action", "eval_summary", "eval_no_action", "eval_no_action_simple", "time_based_request", "time_based_processing", "time_based_deactivated", "time_based_candidate", "time_based_deactivating_region", "region_transition">>

\* the first sizing pattern that matches the line, "none" when none does
first_match(ln) ==
    LET hits == {i \in 1..Len(SizingPatterns) : Matches(ln, SizingPatterns[i])}
    IN IF hits = {} THEN "none" ELSE SizingPatterns[CHOOSE i \in hits : \A j \in hits : i <= j]

\* _extract_timestamp: group 1 of the timestamp pattern of the detected dialect
extract_timestamp(ln, pid_tid) ==
    IF pid_tid
    THEN (IF ln.ts = "modern" THEN ln.tok ELSE None)
    ELSE (IF ln.ts = "trad" THEN ln.tok ELSE None)

\* changed: the branch of the start marker does not return, and the line goes
\* on to the test of the deactivated summary
sizing_dispatch_fallthrough(entries, cur, timestamp, ln, rsize) ==
    IF Matches(ln, "sizing_status") THEN sizing_status(entries, cur, timestamp, ln.cap["sizing_status"])
    ELSE IF Matches(ln, "sizing_init") THEN sizing_init(entries, cur, timestamp, ln.cap["sizing_init"])
    ELSE IF Matches(ln, "sizing_params") THEN sizing_params(entries, cur, timestamp, ln.cap["sizing_params"])
    ELSE IF Matches(ln, "sizing_params_new") THEN sizing_params_new(entries, cur, timestamp, ln.cap["sizing_params_new"])
    ELSE IF Matches(ln, "uncommit") THEN uncommit(entries, cur, timestamp, ln.cap["uncommit"])
    ELSE IF Matches(ln, "shrink_eval") THEN shrink_eval(entries, cur, timestamp, ln.cap["shrink_eval"])
    ELSE IF Matches(ln, "no_uncommit") THEN no_uncommit(entries, cur, timestamp, ln.cap["no_uncommit"])
    ELSE IF Matches(ln, "shrink_completed") THEN shrink_completed(entries, cur, timestamp, ln.cap["shrink_completed"])
    ELSE IF Matches(ln, "heap_shrink_details") THEN heap_shrink_details(entries, cur, timestamp, ln.cap["heap_shrink_details"])
    ELSE IF Matches(ln, "time_based_uncommitted") THEN time_based_uncommitted(entries, cur, timestamp, ln.cap["time_based_uncommitted"])
    ELSE IF Matches(ln, "eval_start")
         THEN (LET r == eval_start(entries, cur, timestamp, ln.cap["eval_start"])
               IN IF Matches(ln, "time_based_deactivated") THEN time_based_deactivated(r.entries, r.cur, timestamp, ln.cap["time_based_deactivated"], rsize) ELSE r)
    ELSE IF Matches(ln, "eval_scan") THEN eval_scan(entries, cur, timestamp, ln.cap["eval_scan"])
    ELSE IF Matches(ln, "eval_scan_result") THEN eval_scan_result(entries, cur, timestamp, ln.cap["eval_scan_result"])
    ELSE IF Matches(ln, "eval_found") THEN eval_found(entries, cur, timestamp, ln.cap["eval_found"])
    ELSE IF Matches(ln, "eval_found_min") THEN eval_found_min(entries, cur, timestamp, ln.cap["eval_found_min"])
    ELSE IF Matches(ln, "eval_found_uncommitting") THEN eval_found_uncommitting(entries, cur, timestamp, ln.cap["eval_found_uncommitting"])
    ELSE IF Matches(ln, "heap_eval_shrink") THEN heap_eval_shrink(entries, cur, timestamp, ln.cap["heap_eval_shrink"])
    ELSE IF Matches(ln, "heap_eval_no_action") THEN heap_eval_no_action(entries, cur, timestamp, ln.cap["heap_eval_no_action"])
    ELSE IF Matches(ln, "eval_summary") THEN eval_summary(entries, cur, timestamp, ln.cap["eval_summary"])
    ELSE IF Matches(ln, "eval_no_action") THEN eval_no_action(entries, cur, timestamp, ln.cap["eval_no_action"])
    ELSE IF Matches(ln, "eval_no_action_simple") THEN eval_no_action_simple(entries, cur, timestamp, ln.cap["eval_no_action_simple"])
    ELSE IF Matches(ln, "time_based_request") THEN time_based_request(entries, cur, timestamp, ln.cap["time_based_request"])
    ELSE IF Matches(ln, "time_based_processing") THEN time_based_processing(entries, cur, timestamp, ln.cap["time_based_processing"])
    ELSE IF Matches(ln, "time_based_deactivated") THEN time_based_deactivated(entries, cur, timestamp, ln.cap["time_based_deactivated"], rsize)
    ELSE IF Matches(ln, "time_based_candidate") THEN time_based_candidate(entries, cur, timestamp, ln.cap["time_based_candidate"])
    ELSE IF Matches(ln, "time_based_deactivating_region") THEN time_based_deactivating_region(entries, cur, timestamp, ln.cap["time_based_deactivating_region"])
    ELSE IF Matches(ln, "region_transition") THEN region_transition(entries, cur, timestamp, ln.cap["region_transition"])
    ELSE Res(entries, cur, {}, {})

\* the if-chain of _parse_sizing_line: the first pattern that matches decides
sizing_dispatch(entries, cur, timestamp, ln, rsize) ==
    IF Matches(ln, "sizing_status") THEN sizing_status(entries, cur, timestamp, ln.cap["sizing_status"])
    ELSE IF Matches(ln, "sizing_init") THEN sizing_init(entries, cur, timestamp, ln.cap["sizing_init"])
    ELSE IF Matches(ln, "sizing_params") THEN sizing_params(entries, cur, timestamp, ln.cap["sizing_params"])
    ELSE IF Matches(ln, "sizing_params_new") THEN sizing_params_new(entries, cur, timestamp, ln.cap["sizing_params_new"])
    ELSE IF Matches(ln, "uncommit") THEN uncommit(entries, cur, timestamp, ln.cap["uncommit"])
    ELSE IF Matches(ln, "shrink_eval") THEN shrink_eval(entries, cur, timestamp, ln.cap["shrink_eval"])
    ELSE IF Matches(ln, "no_uncommit") THEN no_uncommit(entries, cur, timestamp, ln.cap["no_uncommit"])
    ELSE IF Matches(ln, "shrink_completed") THEN shrink_completed(entries, cur, timestamp, ln.cap["shrink_completed"])
    ELSE IF Matches(ln, "heap_shrink_details") THEN heap_shrink_details(entries, cur, timestamp, ln.cap["heap_shrink_details"])
    ELSE IF Matches(ln, "time_based_uncommitted") THEN time_based_uncommitted(entries, cur, timestamp, ln.cap["time_based_uncommitted"])
    ELSE IF Matches(ln, "eval_start") THEN eval_start(entries, cur, timestamp, ln.cap["eval_start"])
    ELSE IF Matches(ln, "eval_scan") THEN eval_scan(entries, cur, timestamp, ln.cap["eval_scan"])
    ELSE IF Matches(ln, "eval_scan_result") THEN eval_scan_result(entries, cur, timestamp, ln.cap["eval_scan_result"])
    ELSE IF Matches(ln, "eval_found") THEN eval_found(entries, cur, timestamp, ln.cap["eval_found"])
    ELSE IF Matches(ln, "eval_found_min") THEN eval_found_min(entries, cur, timestamp, ln.cap["eval_found_min"])
    ELSE IF Matches(ln, "eval_found_uncommitting") THEN eval_found_uncommitting(entries, cur, timestamp, ln.cap["eval_found_uncommitting"])
    ELSE IF Matches(ln, "heap_eval_shrink") THEN heap_eval_shrink(entries, cur, timestamp, ln.cap["heap_eval_shrink"])
    ELSE IF Matches(ln, "heap_eval_no_action") THEN heap_eval_no_action(entries, cur, timestamp, ln.cap["heap_eval_no_action"])
    ELSE IF Matches(ln, "eval_summary") THEN eval_summary(entries, cur, timestamp, ln.cap["eval_summary"])
    ELSE IF Matches(ln, "eval_no_action") THEN eval_no_action(entries, cur, timestamp, ln.cap["eval_no_action"])
    ELSE IF Matches(ln, "eval_no_action_simple") THEN eval_no_action_simple(entries, cur, timestamp, ln.cap["eval_no_action_simple"])
    ELSE IF Matches(ln, "time_based_request") THEN time_based_request(entries, cur, timestamp, ln.cap["time_based_request"])
    ELSE IF Matches(ln, "time_based_processing") THEN time_based_processing(entries, cur, timestamp, ln.cap["time_based_processing"])
    ELSE IF Matches(ln, "time_based_deactivated") THEN time_based_deactivated(entries, cur, timestamp, ln.cap["time_based_deactivated"], rsize)
    ELSE IF Matches(ln, "time_based_candidate") THEN time_based_candidate(entries, cur, timestamp, ln.cap["time_based_candidate"])
    ELSE IF Matches(ln, "time_based_deactivating_region") THEN time_based_deactivating_region(entries, cur, timestamp, ln.cap["time_based_deactivating_region"])
    ELSE IF Matches(ln, "region_transition") THEN region_transition(entries, cur, timestamp, ln.cap["region_transition"])
    ELSE Res(entries, cur, {}, {})

\* changed: a line with a timestamp that no pattern matches ends the evaluation
parse_sizing_line_reset(entries, cur, ln, pid_tid, rsize) ==
    LET timestamp == extract_timestamp(ln, pid_tid)
    IN IF timestamp = None
       THEN Res(entries, cur, {}, {})
       ELSE IF first_match(ln) = "none"
            THEN Res(entries, EmptyDict, {}, {})
            ELSE sizing_dispatch(entries, cur, timestamp, ln, rsize)

\* changed: the patterns are tried whether or not the line carries the
\* timestamp token of the dialect
parse_sizing_line_unstamped(entries, cur, ln, pid_tid, rsize) ==
    sizing_dispatch(entries, cur, extract_timestamp(ln, pid_tid), ln, rsize)

\* _parse_sizing_line: nothing happens on a line without a timestamp token
parse_sizing_line(entries, cur, ln, pid_tid, rsize) ==
    LET timestamp == extract_timestamp(ln, pid_tid)
    IN IF timestamp = None
       THEN Res(entries, cur, {}, {})
       ELSE sizing_dispatch(entries, cur, timestamp, ln, rsize)

\* the text of the timestamp token of a line whose clock value is tok
token_text(ln) ==
    IF ln.ts = "modern" THEN "2025-01-01T00:00:0" \o Digits[ln.tok + 1] \o ".000+0000"
    ELSE Digits[ln.tok + 1] \o ".000"

\* _parse_traditional_line / _parse_modern_line: a region sample is kept when the
\* line carries the timestamp of the detected dialect and a known region type
parse_region_line(rdata, ln, pid_tid) ==
    IF extract_timestamp(ln, pid_tid) # None /\ Matches(ln, "region") /\ ln.cap["region"][1] \in RegionTypes
    THEN [rdata EXCEPT ![ln.cap["region"][1]] = Append(@, <<IF pid_tid THEN parse_timestamp(token_text(ln)) ELSE float_of(token_text(ln)), ln.cap["region"][2], ln.cap["region"][3]>>)]
    ELSE rdata

(***************************************************************************)
(* The lines a buffer is made of.                                          *)
(***************************************************************************)
\* lines that match one pattern whose handler only appends an entry
InfoCaps ==
    { "sizing_status" :> <<"enabled", "uncommit-only">>,
      "sizing_status" :> <<"disabled", NoneStr>>,
      "sizing_init" :> <<"uncommit-only">>,
      "sizing_params" :> <<60000, 300000>>,
      "sizing_params_new" :> <<60, 300, 10>>,
      "shrink_completed" :> <<100>>,
      "eval_scan" :> <<>>,
      "time_based_candidate" :> <<7, 400>>,
      "time_based_deactivating_region" :> <<7, 400>>,
      "region_transition" :> <<7, "Active", "Inactive", 400>> }

\* the lines of an evaluation sequence: start, scan result, decisions, action
\* details and terminal lines
StartCaps == { "eval_start" :> <<>> }

ScanCaps == { "eval_scan_result" :> <<i, 20>> : i \in {0, 5} }

DecisionCaps ==
    { "eval_found" :> <<i, 4>> : i \in {0, 5} }
    \cup { "eval_found_min" :> <<i, 3>> : i \in {0, 3, 5} }
    \cup { "eval_found_uncommitting" :> <<5, 2, 32>> }
    \cup { "heap_eval_shrink" :> <<30, 5, r, 1000, 500>> : r \in {0, 3} }
    \cup { "eval_summary" :> <<30>>, "shrink_eval" :> <<30>> }

DetailCaps == { "time_based_request" :> <<31, 6>>, "time_based_processing" :> <<2, 21>> }

TerminalCaps ==
    { "uncommit" :> <<3, 48, 5>>,
      "no_uncommit" :> <<>>,
      "heap_shrink_details" :> <<3, 48, 100>>,
      "time_based_uncommitted" :> <<3, 48, 100>>,
      "heap_eval_no_action" :> <<0, 3, 1000, 500>>,
      "eval_no_action" :> <<0, 3, 1000, 500>>,
      "eval_no_action_simple" :> <<7>>,
      "time_based_deactivated" :> <<2>> }

EvalCaps == StartCaps \cup ScanCaps \cup DecisionCaps \cup DetailCaps \cup TerminalCaps

\* a line no pattern matches
Unrelated == EmptyDict

\* header and region-sample lines
HeaderCaps == { "region_size" :> <<16>>, "region" :> <<"Eden", 10, 2>>, "region" :> <<"Archive", 1, 1>> }

\* lines on which two patterns match (two templates in one line of text)
OverlapCaps ==
    { ("eval_start" :> <<>>) @@ ("time_based_deactivated" :> <<2>>),
      ("region_size" :> <<16>>) @@ ("eval_start" :> <<>>),
      ("region" :> <<"Old", 4, 4>>) @@ ("eval_scan_result" :> <<5, 20>>) }

AllCaps == InfoCaps \cup EvalCaps \cup HeaderCaps \cup OverlapCaps \cup {Unrelated}

EvalSeqCaps == EvalCaps \cup {Unrelated, "region_size" :> <<16>>}

\* one line of each step of an evaluation sequence, as one verbosity level logs it
LeanCaps ==
    { "eval_start" :> <<>>, "eval_scan_result" :> <<5, 20>>, "eval_scan_result" :> <<0, 20>>,
      "eval_found_uncommitting" :> <<5, 2, 32>>, "eval_summary" :> <<30>>, "shrink_eval" :> <<30>>,
      "time_based_request" :> <<31, 6>>, "time_based_processing" :> <<2, 21>>,
      "time_based_deactivated" :> <<2>>, "eval_no_action_simple" :> <<7>>,
      "region_size" :> <<16>>, Unrelated }

\* lines that may also come without the timestamp token of the dialect
BareCaps == {Unrelated, "region_size" :> <<16>>, "region" :> <<"Eden", 10, 2>>, "eval_start" :> <<>>, "time_based_deactivated" :> <<2>>}

\* the timestamp tokens a line of the buffer may carry: a buffer without a
\* structured line has none
TsKinds(modern, cap) ==
    (IF modern THEN {"modern"} ELSE {"trad"})
    \cup (IF cap \in BareCaps THEN (IF modern THEN {"trad", "none"} ELSE {"none"}) ELSE {})

\* the line read last, and the evaluation it belongs to
line == lines[Len(lines)]

last_ev == IF lines = <<>> THEN 1 ELSE line.ev

(***************************************************************************)
(* The parser.                                                             *)
(***************************************************************************)
\* G1EnhancedParser.__init__
Init ==
    /\ pc = "new"
    /\ lines = <<>>
    /\ buf_modern = FALSE
    /\ saw_modern = FALSE
    /\ region_data = [t \in RegionTypes |-> <<>>]
    /\ sizing_entries = <<>>
    /\ has_pid_tid = FALSE
    /\ has_sizing_data = FALSE
    /\ region_size = 0
    /\ current_eval = EmptyDict
    /\ cur_src = EmptyDict
    /\ entry_src = <<>>
    /\ name_in = [parser |-> NoneStr, pause_type |-> NoneStr, description |-> NoneStr, pause_cause |-> NoneStr]
    /\ pause_name = NoneStr
    /\ ts_in = NoneStr
    /\ ts_out = Zero
    /\ heap_pc = "idle"
    /\ gc_data = <<>>
    /\ scaling_data = <<>>
    /\ prev_total_heap = 0
    /\ data_df = <<>>
    /\ scaling_data_df = <<>>
    /\ buffer = <<>>
    /\ run = 0
    /\ app = NoneStr
    /\ contents = NoneStr
    /\ filename = NoneStr
    /\ decoded_entries = <<>>
    /\ combined_log_content = <<>>
    /\ result = NoResult
    /\ pause_summary = <<>>

\* parse_log_content, first pass: has_pid_tid is set when some line of the
\* buffer matches the structured timestamp pattern.  buf_modern says whether
\* the buffer about to be read holds such a line; the lines are then drawn
\* one at a time, and the pass can only end on a buffer that kept the promise.
DetectFormat ==
    /\ pc = "new"
    /\ \E m \in BOOLEAN :
        /\ buf_modern' = m
        /\ has_pid_tid' = (has_pid_tid \/ m)
    /\ pc' = "lines"
    /\ UNCHANGED <<lines, saw_modern, region_data, sizing_entries, has_sizing_data, region_size, current_eval, cur_src, entry_src, name_in, pause_name>>
    /\ UNCHANGED <<token_vars, heap_vars, buffer_vars, upload_vars, pause_summary>>

\* _parse_line on the next line of the buffer
ParseLineOf(ln) ==
    IF Matches(ln, "region_size")
    THEN /\ region_size' = ln.cap["region_size"][1]
         /\ UNCHANGED <<region_data, sizing_entries, current_eval, cur_src, entry_src>>
    ELSE LET n == Len(sizing_entries)
             r == parse_sizing_line(sizing_entries, current_eval, ln, has_pid_tid, region_size)
         IN /\ region_data' = parse_region_line(region_data, ln, has_pid_tid)
            /\ sizing_entries' = r.entries
            /\ current_eval' = r.cur
            /\ cur_src' = [k \in DOMAIN r.cur |-> IF k \in r.wrote THEN ln.ev ELSE cur_src[k]]
            /\ entry_src' = entry_src \o [i \in 1..(Len(r.entries) - n) |-> [ev |-> ln.ev, carried |-> {cur_src[k] : k \in r.used}]]
            /\ UNCHANGED region_size

\* the second pass of parse_log_content: for line in lines: self._parse_line(line)
ParseLine(caps, maxlines, maxev) ==
    /\ pc = "lines"
    /\ Len(lines) < maxlines
    /\ \E cap \in caps : \E ts \in TsKinds(buf_modern, cap) : \E ev \in {last_ev, last_ev + 1} \cap (1..maxev) :
        LET ln == [ts |-> ts, tok |-> Len(lines) + 1, cap |-> cap, ev |-> ev]
        IN /\ lines' = Append(lines, ln)
           /\ saw_modern' = (saw_modern \/ ts = "modern")
           /\ ParseLineOf(ln)
    /\ UNCHANGED <<pc, buf_modern, has_pid_tid, has_sizing_data, name_in, pause_name>>
    /\ UNCHANGED <<token_vars, heap_vars, buffer_vars, upload_vars, pause_summary>>

\* what _parse_line does with the line: the region-size header, nothing (no
\* timestamp token of the dialect and no header), or the first sizing pattern
classify(ln, pid_tid) ==
    IF Matches(ln, "region_size") THEN "region_size"
    ELSE IF extract_timestamp(ln, pid_tid) = None THEN "none"
    ELSE first_match(ln)

\* parse_log_content, post-processing
Finish ==
    /\ pc = "lines"
    /\ buf_modern => saw_modern
    /\ pc' = "done"
    /\ has_sizing_data' = (has_sizing_data \/ sizing_entries # <<>>)
    /\ UNCHANGED <<lines, buf_modern, saw_modern, region_data, sizing_entries, has_pid_tid, region_size, current_eval, cur_src, entry_src, name_in, pause_name>>
    /\ UNCHANGED <<token_vars, heap_vars, buffer_vars, upload_vars, pause_summary>>

ParseAny == ParseLine(AllCaps, MaxLines, 1)

ParseEval == ParseLine(EvalSeqCaps, MaxEvalLines, 1)

ParseTagged == ParseLine(LeanCaps, MaxTaggedLines, MaxEval)

Next == DetectFormat \/ ParseAny \/ Finish

Spec == Init /\ [][Next]_vars

NextEval == DetectFormat \/ ParseEval \/ Finish

SpecEval == Init /\ [][NextEval]_vars

NextTagged == DetectFormat \/ ParseTagged \/ Finish

SpecTagged == Init /\ [][NextTagged]_vars

(***************************************************************************)
(* parse_log_content on a buffer given as a whole.                         *)
(***************************************************************************)
\* changed: the first pass looks at the first line only
detect_format_first(pid_tid, buf) == pid_tid \/ (buf # <<>> /\ buf[1].ts = "modern")

\* the first pass: has_pid_tid is set when some line matches the structured
\* timestamp pattern, and is left as it was otherwise
detect_format(pid_tid, buf) == pid_tid \/ \E i \in 1..Len(buf) : buf[i].ts = "modern"

BufCaps ==
    { "eval_start" :> <<>>, "eval_scan_result" :> <<5, 20>>, "time_based_deactivated" :> <<2>>,
      "region" :> <<"Eden", 10, 2>>, "region_size" :> <<16>>, Unrelated }

\* the buffers of n lines; the token of a line is its position in the buffer
RECURSIVE BuffersOf(_)
BuffersOf(n) ==
    IF n = 0 THEN {<<>>}
    ELSE {Append(buf, [ts |-> ts, tok |-> n, cap |-> cap, ev |-> 1]) : buf \in BuffersOf(n - 1), ts \in {"trad", "modern", "none"}, cap \in BufCaps}

Buffers == UNION {BuffersOf(n) : n \in 0..MaxBufLines}

\* parse_log_content, first pass, on a buffer given as a whole
ReadBuffer ==
    /\ pc = "new"
    /\ \E buf \in Buffers :
        /\ buffer' = buf
        /\ has_pid_tid' = detect_format(has_pid_tid, buf)
    /\ pc' = "lines"
    /\ run' = run + 1
    /\ UNCHANGED <<lines, buf_modern, saw_modern, region_data, sizing_entries, has_sizing_data, region_size, current_eval, cur_src, entry_src>>
    /\ UNCHANGED <<name_vars, token_vars, heap_vars, upload_vars, pause_summary>>

\* the second pass on the next line of the buffer
ParseBufferLine ==
    /\ pc = "lines"
    /\ Len(lines) < Len(buffer)
    /\ lines' = Append(lines, buffer[Len(lines) + 1])
    /\ ParseLineOf(buffer[Len(lines) + 1])
    /\ UNCHANGED <<pc, buf_modern, saw_modern, has_pid_tid, has_sizing_data>>
    /\ UNCHANGED <<name_vars, token_vars, heap_vars, buffer_vars, upload_vars, pause_summary>>

\* parse_log_content, post-processing, after the last line of the buffer
FinishBuffer ==
    /\ pc = "lines"
    /\ Len(lines) = Len(buffer)
    /\ pc' = "done"
    /\ has_sizing_data' = (has_sizing_data \/ sizing_entries # <<>>)
    /\ UNCHANGED <<lines, buf_modern, saw_modern, region_data, sizing_entries, has_pid_tid, region_size, current_eval, cur_src, entry_src>>
    /\ UNCHANGED <<name_vars, token_vars, heap_vars, buffer_vars, upload_vars, pause_summary>>

\* parse_log_content is called again on the parser that parsed a buffer
Reparse ==
    /\ pc = "done"
    /\ run < MaxRuns
    /\ pc' = "new"
    /\ lines' = <<>>
    /\ buffer' = <<>>
    /\ UNCHANGED <<buf_modern, saw_modern, region_data, sizing_entries, has_pid_tid, has_sizing_data, region_size, current_eval, cur_src, entry_src>>
    /\ UNCHANGED <<run, name_vars, token_vars, heap_vars, upload_vars, pause_summary>>

NextBuf == ReadBuffer \/ ParseBufferLine \/ FinishBuffer

SpecBuf == Init /\ [][NextBuf]_vars

NextReuse == ReadBuffer \/ ParseBufferLine \/ FinishBuffer \/ Reparse

SpecReuse == Init /\ [][NextReuse]_vars

\* the fields of a parser, and those of a parser just constructed
ParserState == [region_data |-> region_data, sizing_entries |-> sizing_entries, has_pid_tid |-> has_pid_tid, has_sizing_data |-> has_sizing_data, region_size |-> region_size, current_eval |-> current_eval]

NewParser == [region_data |-> [t \in RegionTypes |-> <<>>], sizing_entries |-> <<>>, has_pid_tid |-> FALSE, has_sizing_data |-> FALSE, region_size |-> 0, current_eval |-> EmptyDict]

\* _parse_line as a function of the fields of the parser
parse_line(st, ln) ==
    IF Matches(ln, "region_size")
    THEN [st EXCEPT !.region_size = ln.cap["region_size"][1]]
    ELSE LET r == parse_sizing_line(st.sizing_entries, st.current_eval, ln, st.has_pid_tid, st.region_size)
         IN [st EXCEPT !.region_data = parse_region_line(@, ln, st.has_pid_tid), !.sizing_entries = r.entries, !.current_eval = r.cur]

RECURSIVE parse_lines(_, _)
parse_lines(st, buf) == IF buf = <<>> THEN st ELSE parse_lines(parse_line(st, Head(buf)), Tail(buf))

\* parse_log_content as a function of the fields of the parser
parse_log_content(st, buf) ==
    LET st1 == parse_lines([st EXCEPT !.has_pid_tid = detect_format(@, buf)], buf)
    IN [st1 EXCEPT !.has_sizing_data = (@ \/ st1.sizing_entries # <<>>)]

(***************************************************************************)
(* Pause names (heap_plotter.py).  An optional group that did not take     *)
(* part in the match is NoneStr; it and the empty string are false.        *)
(***************************************************************************)
Falsy(str) == str = NoneStr \/ str = ""

\* parse_gc_log: the name of a pause from the groups of pause_pattern
build_pause_name(pause_type, description, pause_cause) ==
    LET type1 == IF ~Falsy(description) /\ (Contains(description, "Mixed") \/ Contains(description, "Concurrent Start")) THEN description ELSE pause_type
        cause1 == IF ~Falsy(description) /\ Contains(description, "System.gc()") THEN "SystemGC" ELSE pause_cause
    IN IF ~Falsy(cause1) THEN type1 \o " " \o cause1
       ELSE IF ~Falsy(description) THEN type1 \o " " \o description
       ELSE type1

\* changed: a captured cause is kept when the description names System.gc()
build_pause_name_modern_keep_cause(pause_type, description, pause_cause) ==
    LET type1 == IF ~Falsy(description) /\ (Contains(description, "Mixed") \/ Contains(description, "Concurrent Start")) THEN description ELSE pause_type
        cause1 == IF ~Falsy(description) /\ Contains(description, "System.gc()") /\ Falsy(pause_cause) THEN "SystemGC" ELSE pause_cause
    IN IF ~Falsy(cause1) THEN type1 \o " " \o cause1
       ELSE IF ~Falsy(description) THEN type1 \o " " \o description
       ELSE type1

\* changed: a description that has replaced the type is not appended again
build_pause_name_modern_once(pause_type, description, pause_cause) ==
    LET replaced == ~Falsy(description) /\ (Contains(description, "Mixed") \/ Contains(description, "Concurrent Start"))
        type1 == IF replaced THEN description ELSE pause_type
        cause1 == IF ~Falsy(description) /\ Contains(description, "System.gc()") THEN "SystemGC" ELSE pause_cause
    IN IF ~Falsy(cause1) THEN type1 \o " " \o cause1
       ELSE IF ~Falsy(description) /\ ~replaced THEN type1 \o " " \o description
       ELSE type1

\* parse_modern_gc_log: the same steps on the groups of its pause_pattern
build_pause_name_modern(pause_type, description, pause_cause) ==
    LET type1 == IF ~Falsy(description) /\ (Contains(description, "Mixed") \/ Contains(description, "Concurrent Start")) THEN description ELSE pause_type
        cause1 == IF ~Falsy(description) /\ Contains(description, "System.gc()") THEN "SystemGC" ELSE pause_cause
    IN IF ~Falsy(cause1) THEN type1 \o " " \o cause1
       ELSE IF ~Falsy(description) THEN type1 \o " " \o description
       ELSE type1

PauseTypes == {"Young", "Full", "Remark", "Cleanup"}

Descriptions == {NoneStr, "", "Normal", "Mixed", "Prepare Mixed", "Concurrent Start", "Concurrent Start G1 Evacuation Pause", "G1 Evacuation Pause", "System.gc()", "Metadata GC Threshold (System.gc()"}

Causes == {NoneStr, "", "G1 Evacuation Pause", "G1 Humongous Allocation", "Metadata GC Threshold"}

\* a line on which pause_pattern matches, in either parser
PauseMatch ==
    /\ \E parser \in {"elapsed", "modern"} : \E pause_type \in PauseTypes : \E description \in Descriptions : \E pause_cause \in Causes :
        /\ name_in' = [parser |-> parser, pause_type |-> pause_type, description |-> description, pause_cause |-> pause_cause]
        /\ pause_name' = IF parser = "modern"
                         THEN build_pause_name_modern(pause_type, description, pause_cause)
                         ELSE build_pause_name(pause_type, description, pause_cause)
    /\ UNCHANGED <<sizing_vars, token_vars, heap_vars, buffer_vars, upload_vars, pause_summary>>

SpecName == Init /\ [][PauseMatch]_vars

(***************************************************************************)
(* _parse_timestamp on the tokens a timestamp pattern can capture.         *)
(***************************************************************************)
TokChars == {"1", "5", ".", "T", "-", "+", ":"}

\* the strings of at most n of these characters
RECURSIVE StringsUpTo(_)
StringsUpTo(n) ==
    IF n = 0 THEN {""}
    ELSE LET shorter == StringsUpTo(n - 1) IN shorter \cup {str \o c : str \in shorter, c \in TokChars}

\* tokens of the two dialects, well-formed and not
LongTokens ==
    { "12.345", "0.000", "1.2.3", "12:34:56", "2025-01-01",
      "2025-01-01T00:00:01.500+0000", "2025-01-01T00:00:01.500+00:00", "2025-01-01T00:00:01.500",
      "2025-01-01T00:00:01.500-08:00", "2025-01-01T00:00:01.500+0100", "1970-01-01T00:00:00.000+0000",
      "2024-02-29T23:59:59.999+0000", "2025-02-29T00:00:00.000+0000", "2025-13-01T00:00:00.000+0000",
      "2025-01-01T24:00:00.000+0000", "2025-01-01T00:00", "2025-01-01T", "2025-01-01T00:00:01+0000",
      "2025-01-01T00:00:01.500Z", "T2025-01-01" }

Tokens == StringsUpTo(MaxTokLen) \cup LongTokens

\* one call of _parse_timestamp
ParseTimestamp ==
    /\ \E tok \in Tokens :
        /\ ts_in' = tok
        /\ ts_out' = parse_timestamp(tok)
    /\ UNCHANGED <<sizing_vars, name_vars, heap_vars, buffer_vars, upload_vars, pause_summary>>

SpecToken == Init /\ [][ParseTimestamp]_vars

(***************************************************************************)
(* The pause and cpu records (heap_plotter.py).  A line is [tok, cap]: the *)
(* text of its timestamp token and, for pause_pattern ("pause") and        *)
(* scaling_pattern ("scaling"), the groups after the timestamp.  Heap      *)
(* sizes are MB, durations microseconds, cpu times hundredths of a second; *)
(* a quotient of floats is the fraction [num, den] in lowest terms.        *)
(***************************************************************************)
RECURSIVE GCD(_, _)
GCD(a, b) == IF b = 0 THEN a ELSE GCD(b, a % b)

Ratio(a, b) == [num |-> a \div GCD(a, b), den |-> b \div GCD(a, b)]

\* float('inf')
Inf == [num |-> 1, den |-> 0]

\* user_time / real_time if real_time else float('inf')
scaling_factor(user_time, real_time) == IF real_time # 0 THEN Ratio(user_time, real_time) ELSE Inf

\* the dict appended to scaling_data; g = (user, sys, real)
scaling_row(runtime, g) ==
    [Runtime |-> runtime, UserTime |-> g[1], SysTime |-> g[2], RealTime |-> g[3], ScalingFactor |-> scaling_factor(g[1], g[3])]

\* changed: the capacity before the pause is taken to be the occupancy before it
pause_row_occupancy(runtime, g, prev_total, pause_name_) ==
    [Runtime |-> runtime, HeapBefore |-> g[4], HeapAfter |-> g[5], TotalHeap |-> g[6], TotalHeapBefore |-> g[4], PauseName |-> pause_name_, Duration |-> g[7]]

\* the dict appended to gc_data; g = (pause_type, description, pause_cause,
\* heap_before, heap_after, total_heap, duration)
pause_row(runtime, g, prev_total, pause_name_) ==
    [Runtime |-> runtime, HeapBefore |-> g[4], HeapAfter |-> g[5], TotalHeap |-> g[6], TotalHeapBefore |-> prev_total, PauseName |-> pause_name_, Duration |-> g[7]]

\* the rows parse_modern_gc_log makes up when it found no pause, no cpu line
NoGcData == [Runtime |-> Zero, HeapBefore |-> 0, HeapAfter |-> 0, TotalHeap |-> 0, TotalHeapBefore |-> 0, PauseName |-> "No GC Data", Duration |-> 0]

NoScalingData == [Runtime |-> Zero, UserTime |-> 0, SysTime |-> 0, RealTime |-> 0, ScalingFactor |-> Ratio(0, 1)]

TimeLeq(a, b) == a.s < b.s \/ (a.s = b.s /\ a.ms <= b.ms)

TimeSub(a, b) == IF a.ms >= b.ms THEN Time(a.s - b.s, a.ms - b.ms) ELSE Time(a.s - b.s - 1, a.ms + 1000 - b.ms)

\* df['Runtime'].min()
MinRuntime(rows) ==
    LET ts == {rows[i].Runtime : i \in 1..Len(rows)}
    IN CHOOSE t \in ts : \A u \in ts : TimeLeq(t, u)

\* df['Runtime'] = df['Runtime'] - df['Runtime'].min(), on a frame with rows
normalize(rows) ==
    IF rows = <<>> THEN rows
    ELSE [i \in 1..Len(rows) |-> [rows[i] EXCEPT !.Runtime = TimeSub(@, MinRuntime(rows))]]

PauseGroups ==
    { <<"Young", "Normal", "G1 Evacuation Pause", 10, 5, 20, 1234>>,
      <<"Young", "Normal", "G1 Evacuation Pause", 12, 6, 20, 130>>,
      <<"Young", "Mixed", NoneStr, 30, 12, 40, 2500>>,
      <<"Full", "System.gc()", NoneStr, 35, 8, 20, 90000>> }

ScalingGroups == { <<15, 2, 5>>, <<1, 0, 0>> }

ElapsedTokens == {"1.500", "3.250"}

\* the last one is a token the structured pattern accepts and no clock wrote
StructuredTokens == {"2025-01-01T00:00:01.500+0000", "2025-01-01T00:00:03.250+0000", "12:34"}

HeapCaps ==
    { "pause" :> g : g \in PauseGroups } \cup { "scaling" :> g : g \in ScalingGroups }
    \cup { ("pause" :> <<"Young", "Normal", "G1 Evacuation Pause", 10, 5, 20, 1234>>) @@ ("scaling" :> <<15, 2, 5>>) }

\* the lines of a buffer of the dialect: a line with a timestamp token of the
\* dialect on which pause_pattern, scaling_pattern, both or neither match, and
\* a line without such a token
HeapLines(modern) ==
    { [tok |-> tok, cap |-> cap] : tok \in (IF modern THEN StructuredTokens ELSE ElapsedTokens), cap \in HeapCaps \cup {EmptyDict} }
    \cup { [tok |-> NoneStr, cap |-> EmptyDict] }

\* update_output: a new parser reads the buffer and decides the dialect, then
\* parse_gc_log_enhanced enters the parser of that dialect
HeapBegin ==
    /\ heap_pc = "idle"
    /\ \E m \in BOOLEAN : has_pid_tid' = m
    /\ heap_pc' = "loop"
    /\ gc_data' = <<>>
    /\ scaling_data' = <<>>
    /\ prev_total_heap' = 0
    /\ UNCHANGED <<pc, lines, buf_modern, saw_modern, region_data, sizing_entries, has_sizing_data, region_size, current_eval, cur_src, entry_src>>
    /\ UNCHANGED <<data_df, scaling_data_df, name_vars, token_vars, buffer_vars, upload_vars, pause_summary>>

\* parse_gc_log: the body of the loop over the lines
gc_log_line(ln) ==
    /\ scaling_data' = IF Matches(ln, "scaling") THEN Append(scaling_data, scaling_row(float_of(ln.tok), ln.cap["scaling"])) ELSE scaling_data
    /\ IF Matches(ln, "pause")
       THEN LET g == ln.cap["pause"]
            IN /\ gc_data' = Append(gc_data, pause_row(float_of(ln.tok), g, prev_total_heap, build_pause_name(g[1], g[2], g[3])))
               /\ prev_total_heap' = g[6]
       ELSE UNCHANGED <<gc_data, prev_total_heap>>

\* parse_modern_gc_log: the body of the loop over the lines
modern_gc_log_line(ln) ==
    /\ scaling_data' = IF Matches(ln, "scaling") THEN Append(scaling_data, scaling_row(parse_timestamp(ln.tok), ln.cap["scaling"])) ELSE scaling_data
    /\ IF Matches(ln, "pause")
       THEN LET g == ln.cap["pause"]
            IN /\ gc_data' = Append(gc_data, pause_row(parse_timestamp(ln.tok), g, prev_total_heap, build_pause_name_modern(g[1], g[2], g[3])))
               /\ prev_total_heap' = g[6]
       ELSE UNCHANGED <<gc_data, prev_total_heap>>

\* the next line of the buffer, in the parser of the dialect
HeapLine ==
    /\ heap_pc = "loop"
    /\ Len(lines) < MaxHeapLines
    /\ \E ln \in HeapLines(has_pid_tid) :
        /\ lines' = Append(lines, ln)
        /\ IF has_pid_tid THEN modern_gc_log_line(ln) ELSE gc_log_line(ln)
    /\ UNCHANGED <<pc, buf_modern, saw_modern, region_data, sizing_entries, has_pid_tid, has_sizing_data, region_size, current_eval, cur_src, entry_src>>
    /\ UNCHANGED <<heap_pc, data_df, scaling_data_df, name_vars, token_vars, buffer_vars, upload_vars, pause_summary>>

\* after the loop: parse_gc_log raises ValueError when it found no pause and
\* returns the rows as they are; parse_modern_gc_log makes up the rows it did
\* not find and moves the earliest row of each frame to time 0.  The buffer of
\* the structured dialect holds a line with a structured token: that is how
\* the dialect was decided.
HeapReturn ==
    /\ heap_pc = "loop"
    /\ has_pid_tid => \E i \in 1..Len(lines) : lines[i].tok # NoneStr
    /\ IF has_pid_tid
       THEN /\ gc_data' = IF gc_data = <<>> THEN <<NoGcData>> ELSE gc_data
            /\ scaling_data' = IF scaling_data = <<>> THEN <<NoScalingData>> ELSE scaling_data
            /\ data_df' = normalize(gc_data')
            /\ scaling_data_df' = normalize(scaling_data')
            /\ heap_pc' = "returned"
       ELSE IF gc_data = <<>>
            THEN /\ heap_pc' = "raised"
                 /\ UNCHANGED <<gc_data, scaling_data, data_df, scaling_data_df>>
            ELSE /\ data_df' = gc_data
                 /\ scaling_data_df' = scaling_data
                 /\ heap_pc' = "returned"
                 /\ UNCHANGED <<gc_data, scaling_data>>
    /\ UNCHANGED <<sizing_vars, prev_total_heap, name_vars, token_vars, buffer_vars, upload_vars, pause_summary>>

\* df['Runtime'].max()
MaxRuntime(rows) ==
    LET ts == {rows[i].Runtime : i \in 1..Len(rows)}
    IN CHOOSE t \in ts : \A u \in ts : TimeLeq(u, t)

RECURSIVE SumDuration(_)
SumDuration(rows) == IF rows = <<>> THEN 0 ELSE SumDuration(SubSeq(rows, 1, Len(rows) - 1)) + rows[Len(rows)].Duration

\* groupby('PauseName')['Duration'].agg(['count', 'min', 'max', 'sum']), one group
agg(df, name) ==
    LET rows == SelectSeq(df, LAMBDA r : r.PauseName = name)
        ds == {rows[i].Duration : i \in 1..Len(rows)}
    IN [PauseName |-> name, count |-> Len(rows), min |-> CHOOSE d \in ds : \A e \in ds : d <= e,
        max |-> CHOOSE d \in ds : \A e \in ds : e <= d, sum |-> SumDuration(rows)]

\* x < overhead_threshold for x = (sum / total_runtime_ms) * 100 and a total
\* runtime that is not 0: sum is microseconds, so x is 10 * sum / ms hundredths
\* of a percent, and it is below one hundredth when 10 * sum < ms (compared by
\* seconds and milliseconds: the milliseconds of an epoch do not fit a word)
below_threshold(sum, total_runtime) ==
    LET a == 10 * sum
    IN (a \div 1000) < total_runtime.s \/ ((a \div 1000) = total_runtime.s /\ (a % 1000) < total_runtime.ms)

\* the hundredths f"{x:.2f}" shows: x rounded to the nearest hundredth (a tie
\* goes by the binary float; none of the sums and runtimes here makes one)
hundredths(sum, total_runtime) ==
    LET a == 10 * sum
        b == total_runtime.s * 1000 + total_runtime.ms
        q == a \div b
        r == a % b
    IN IF 2 * r > b THEN q + 1 ELSE IF 2 * r < b THEN q ELSE q + (q % 2)

\* f"{x:.2f}" of x = h / 100
format_2f(h) == ToString(h \div 100) \o "." \o ToString((h % 100) \div 10) \o ToString(h % 10)

\* changed: the digits after the second decimal are cut off
format_overhead_cut(sum, total_runtime) ==
    IF total_runtime = Zero THEN (IF sum = 0 THEN "nan" ELSE "inf")
    ELSE IF below_threshold(sum, total_runtime) THEN "~0"
    ELSE format_2f((10 * sum) \div (total_runtime.s * 1000 + total_runtime.ms))

\* (sum / total_runtime_ms) * 100 and the lambda that formats it.  The
\* division is one of float64 columns: by 0 it gives inf, or nan for 0 / 0,
\* and raises nothing; neither is below the threshold, and f"{x:.2f}" writes
\* them as "inf" and "nan"
format_overhead(sum, total_runtime) ==
    IF total_runtime = Zero THEN (IF sum = 0 THEN "nan" ELSE "inf")
    ELSE IF below_threshold(sum, total_runtime) THEN "~0"
    ELSE format_2f(hundredths(sum, total_runtime))

\* pause_summary.sort_values(by='sum', ascending=False)
sort_values(groups) ==
    CHOOSE seq \in [1..Cardinality(groups) -> groups] :
        /\ \A i, j \in DOMAIN seq : i < j => seq[i] # seq[j] /\ seq[i].sum >= seq[j].sum

\* update_output hands frames that both have rows to generate_plot, here with
\* selected_value == 'summary'
generate_plot ==
    /\ heap_pc = "returned"
    /\ data_df # <<>>
    /\ scaling_data_df # <<>>
    /\ LET total_runtime == MaxRuntime(data_df)
           names == {data_df[i].PauseName : i \in 1..Len(data_df)}
           groups == { [Overhead |-> format_overhead(agg(data_df, n).sum, total_runtime)] @@ agg(data_df, n) : n \in names }
       IN pause_summary' = sort_values(groups)
    /\ heap_pc' = "plotted"
    /\ UNCHANGED <<sizing_vars, gc_data, scaling_data, prev_total_heap, data_df, scaling_data_df, name_vars, token_vars, buffer_vars, upload_vars>>

NextHeap == HeapBegin \/ HeapLine \/ HeapReturn \/ generate_plot

SpecHeap == Init /\ [][NextHeap]_vars

(***************************************************************************)
(* Vocabulary of the claims.                                               *)
(***************************************************************************)
SummaryTypes == {"time_based_uncommit", "time_based_evaluation_shrink", "time_based_evaluation_no_uncommit"}

NoUncommitPatterns == {"no_uncommit", "heap_eval_no_action", "eval_no_action", "eval_no_action_simple"}

TerminalPatterns == NoUncommitPatterns \cup {"uncommit", "heap_shrink_details", "time_based_uncommitted", "time_based_deactivated"}

\* the entries of one of the summary types
Summaries(entries) == {i \in 1..Len(entries) : entries[i].sizing_type \in SummaryTypes}

\* the buffer read so far is exactly these lines, each line that matches a
\* pattern carrying the timestamp token of the dialect
Fed(caps) ==
    /\ Len(lines) = Len(caps)
    /\ \A i \in 1..Len(caps) : lines[i].cap = caps[i] /\ (caps[i] # Unrelated => extract_timestamp(lines[i], has_pid_tid) # None)

\* this step read one more line, and _parse_line classified it as p
Read(p) == Len(lines') = Len(lines) + 1 /\ classify(lines'[Len(lines')], has_pid_tid) = p

LastEntry(entries) == entries[Len(entries)]

\* this step appended exactly one entry and left the earlier ones alone
AppendedOne == Len(sizing_entries') = Len(sizing_entries) + 1 /\ SubSeq(sizing_entries', 1, Len(sizing_entries)) = sizing_entries

\* the region size the headers read so far announce, 0 when there is none
HeaderSize ==
    LET hs == {i \in 1..Len(lines) : Matches(lines[i], "region_size")}
    IN IF hs = {} THEN 0 ELSE lines[CHOOSE i \in hs : \A j \in hs : j <= i].cap["region_size"][1]

(***************************************************************************)
(* Claims.                                                                 *)
(***************************************************************************)
\* C1 (as claimed): after the lines [evaluation start, scan result (inactive=5,
\* total=20), an unrelated line, shrink decision of 30MB] there is exactly one
\* time_based_evaluation_shrink entry, and it has inactive_regions=5,
\* total_empty_regions=20 and shrink_mb=30.
C1_ScanCarriedIntoShrink ==
    \A shrink \in {"eval_summary" :> <<30>>, "shrink_eval" :> <<30>>} :
        Fed(<<"eval_start" :> <<>>, "eval_scan_result" :> <<5, 20>>, Unrelated, shrink>>) =>
            LET sh == {i \in 1..Len(sizing_entries) : sizing_entries[i].sizing_type = "time_based_evaluation_shrink"}
            IN /\ Cardinality(sh) = 1
               /\ \A i \in sh : /\ sizing_entries[i].inactive_regions = 5
                                /\ sizing_entries[i].total_empty_regions = 20
                                /\ sizing_entries[i].shrink_mb = 30

\* C2 (as claimed): every value a summary entry took from the accumulator was
\* captured from a line of the evaluation of the line that emitted the entry.
C2_NoLeakAcrossEvaluations ==
    \A i \in Summaries(sizing_entries) : entry_src[i].carried \subseteq {entry_src[i].ev}

\* C3: after a terminal line with the timestamp token of the dialect (a "no
\* uncommit needed" variant, a legacy uncommit summary, a shrink-details or
\* uncommitted summary, a deactivated summary) the accumulator is empty.
C3_TerminalClears ==
    (lines # <<>> /\ classify(line, has_pid_tid) \in TerminalPatterns) => current_eval = EmptyDict

\* a terminal line read right after a decision line that filled the accumulator
C3_Witness ==
    /\ Len(lines) = 2
    /\ classify(lines[1], has_pid_tid) = "eval_found_uncommitting"
    /\ classify(lines[2], has_pid_tid) = "eval_no_action_simple"
    /\ current_eval = EmptyDict

\* the entry fields a terminal line supplies from its own groups
Own(p, g) ==
    IF p = "uncommit" THEN [uncommit_regions |-> g[1], uncommit_mb |-> g[2], inactive_regions |-> g[3]]
    ELSE IF p \in {"heap_shrink_details", "time_based_uncommitted"} THEN [uncommit_regions |-> g[1], uncommit_mb |-> g[2], heap_size_mb |-> g[3]]
    ELSE IF p \in {"heap_eval_no_action", "eval_no_action"} THEN [inactive_regions |-> g[1], inactive_required |-> g[2], heap_bytes |-> g[3], min_heap_bytes |-> g[4]]
    ELSE IF p = "time_based_deactivated" THEN [uncommit_regions |-> g[1]]
    ELSE EmptyDict

\* C4 (as claimed): the entry a terminal line emits holds the line's own fields
\* and every entry field the accumulator held that the line does not supply.
C4_TerminalMergesAccumulator ==
    [][\A p \in TerminalPatterns : Read(p) =>
          LET e == LastEntry(sizing_entries')
              own == Own(p, lines'[Len(lines')].cap[p])
              carried == (DOMAIN current_eval \cap DOMAIN BlankEntry) \ ({"timestamp"} \cup DOMAIN own)
          IN /\ AppendedOne
             /\ \A k \in DOMAIN own : e[k] = own[k]
             /\ \A k \in carried : e[k] = current_eval[k]]_vars

\* C5: after an evaluation-start marker with the timestamp token of the
\* dialect the accumulator is exactly {timestamp: the token of that line}.
C5_StartResets ==
    (lines # <<>> /\ classify(line, has_pid_tid) = "eval_start") => current_eval = [timestamp |-> line.tok]

\* a start marker read while the accumulator held a decision and its entry
C5_Witness ==
    /\ Len(lines) = 2
    /\ classify(lines[1], has_pid_tid) = "eval_found_uncommitting"
    /\ classify(lines[2], has_pid_tid) = "eval_start"
    /\ current_eval = [timestamp |-> 2]

\* C6: [start, scan result (inactive=0, total=20)] emits no summary entry, and
\* a second start then discards the accumulator without emitting one.
C6_NoSummaryWithoutTerminal ==
    /\ Fed(<<"eval_start" :> <<>>, "eval_scan_result" :> <<0, 20>>>>) => Summaries(sizing_entries) = {}
    /\ Fed(<<"eval_start" :> <<>>, "eval_scan_result" :> <<0, 20>>, "eval_start" :> <<>>>>) =>
          Summaries(sizing_entries) = {} /\ current_eval = [timestamp |-> 3]

C6_Witness ==
    /\ Fed(<<"eval_start" :> <<>>, "eval_scan_result" :> <<0, 20>>, "eval_start" :> <<>>>>)
    /\ Len(sizing_entries) = 3
    /\ current_eval = [timestamp |-> 3]

\* C7: whatever lines came before, a deactivated line with a timestamp appends
\* exactly one time_based_uncommit entry and a "no uncommit needed" line with a
\* timestamp appends exactly one time_based_evaluation_no_uncommit entry.
C7_PivotalOutcomes ==
    [][/\ Read("time_based_deactivated") => (AppendedOne /\ LastEntry(sizing_entries').sizing_type = "time_based_uncommit")
       /\ \A p \in NoUncommitPatterns : Read(p) => (AppendedOne /\ LastEntry(sizing_entries').sizing_type = "time_based_evaluation_no_uncommit")]_vars

\* both outcomes without a start marker and without a decision line
C7_Witness ==
    /\ Fed(<<"time_based_deactivated" :> <<2>>, "eval_scan_result" :> <<0, 20>>, "no_uncommit" :> <<>>>>)
    /\ Len(sizing_entries) = 3
    /\ sizing_entries[1].sizing_type = "time_based_uncommit"
    /\ sizing_entries[3].sizing_type = "time_based_evaluation_no_uncommit"

\* C8: a deactivated line of N regions emits uncommit_regions = N and
\* uncommit_mb = the accumulator's shrink_mb when it holds one, else N times the
\* region size of the header read before (0 when no header was read).
C8_DeactivatedSize ==
    [][Read("time_based_deactivated") =>
          LET e == LastEntry(sizing_entries')
              N == lines'[Len(lines')].cap["time_based_deactivated"][1]
          IN /\ e.uncommit_regions = N
             /\ e.uncommit_mb = IF "shrink_mb" \in DOMAIN current_eval THEN current_eval["shrink_mb"] ELSE N * HeaderSize]_vars

\* the estimate from the header, and the accumulator's value preferred to it
C8_Witness ==
    \/ /\ Fed(<<"region_size" :> <<16>>, "time_based_deactivated" :> <<2>>>>)
       /\ LastEntry(sizing_entries).uncommit_mb = 32
    \/ /\ Fed(<<"region_size" :> <<16>>, "eval_summary" :> <<30>>, "time_based_deactivated" :> <<2>>>>)
       /\ LastEntry(sizing_entries).uncommit_mb = 30

\* C9: a line no pattern matches leaves the accumulator, the entries, the
\* region data and the region size (and the two flags) as they were.
C9_UnmatchedLineIgnored ==
    [][(Len(lines') = Len(lines) + 1 /\ DOMAIN lines'[Len(lines')].cap = {}) => UNCHANGED parser_vars]_vars

\* an unmatched line with a timestamp read while the accumulator was filled
C9_Witness ==
    /\ Len(lines) = 2
    /\ DOMAIN line.cap = {}
    /\ extract_timestamp(line, has_pid_tid) # None
    /\ current_eval # EmptyDict
    /\ sizing_entries # <<>>

\* C10 (as claimed): pause_type "Young" with description "Concurrent Start G1
\* Evacuation Pause" and no cause is named "Concurrent Start G1 Evacuation Pause".
C10_ConcurrentStartName ==
    (name_in.pause_type = "Young" /\ name_in.description = "Concurrent Start G1 Evacuation Pause" /\ name_in.pause_cause = NoneStr)
        => pause_name = "Concurrent Start G1 Evacuation Pause"

\* C11: in both parsers the name of a pause is composed by the precedence: a
\* description containing "Mixed" or "Concurrent Start" replaces the pause
\* type; a description containing "System.gc()" makes the cause "SystemGC",
\* whatever cause was captured; the name is "type cause" when there is a
\* cause, else "type description" when there is a description, else the type.
\* A group that is absent or empty counts as not present.
C11_NamePrecedence ==
    name_in.parser # NoneStr =>
        LET d == name_in.description
            present == d # NoneStr /\ d # ""
            type == IF present /\ (Contains(d, "Mixed") \/ Contains(d, "Concurrent Start")) THEN d ELSE name_in.pause_type
            cause == IF present /\ Contains(d, "System.gc()") THEN "SystemGC" ELSE name_in.pause_cause
        IN pause_name = IF cause # NoneStr /\ cause # "" THEN type \o " " \o cause
                        ELSE IF present THEN type \o " " \o d
                        ELSE type

\* the structured parser names a pause whose description is System.gc() and
\* whose captured cause is another one
C11_Witness ==
    /\ name_in = [parser |-> "modern", pause_type |-> "Full", description |-> "System.gc()", pause_cause |-> "G1 Humongous Allocation"]
    /\ pause_name = "Full SystemGC"

\* the lines read so far on which pause_pattern matched
PauseLines == {i \in 1..Len(lines) : Matches(lines[i], "pause")}

\* C12: in the pause records of a buffer, in both parsers and whatever lines
\* lie between the pauses, TotalHeapBefore of the first record is 0 and
\* TotalHeapBefore of every later record is TotalHeap of the record before it;
\* the records returned are those of the pause lines, in their order.
C12_CapacityChain ==
    /\ \A i \in 1..Len(gc_data) : gc_data[i].TotalHeapBefore = IF i = 1 THEN 0 ELSE gc_data[i - 1].TotalHeap
    /\ \A i \in 1..Len(data_df) : data_df[i].TotalHeapBefore = IF i = 1 THEN 0 ELSE data_df[i - 1].TotalHeap
    /\ (heap_pc = "returned" /\ PauseLines # {}) =>
          /\ Len(data_df) = Cardinality(PauseLines)
          /\ \A i \in 1..Len(data_df) : \E k \in PauseLines :
                /\ Cardinality({j \in PauseLines : j <= k}) = i
                /\ data_df[i].TotalHeap = lines[k].cap["pause"][6]

\* two pauses with a cpu line between them
C12_Witness ==
    /\ heap_pc = "returned"
    /\ Len(lines) = 3
    /\ Len(data_df) = 2
    /\ Matches(lines[2], "scaling") /\ ~Matches(lines[2], "pause")
    /\ data_df[1].TotalHeap = 40
    /\ data_df[2].TotalHeapBefore = 40
    /\ data_df[2].TotalHeap = 20

\* C13 (as claimed): in the frames the batch entry point returns, in either
\* dialect, the least Runtime of the pause records is 0 when there are any, and
\* so is the least Runtime of the cpu records.
C13_EarliestAtZero ==
    heap_pc = "returned" =>
        /\ data_df # <<>> => MinRuntime(data_df) = Zero
        /\ scaling_data_df # <<>> => MinRuntime(scaling_data_df) = Zero

\* C14 (as claimed): when the pass over the buffer found no pause line, the
\* batch entry point ends by raising to its caller and returns no pause
\* record, in either dialect.
C14_EmptyOutcome ==
    (heap_pc \in {"returned", "raised"} /\ PauseLines = {}) => (heap_pc = "raised" /\ data_df = <<>>)

\* C15 (as claimed): every cpu record returned has ScalingFactor = UserTime /
\* RealTime when RealTime is not 0, and +infinity when RealTime is 0.
C15_ScalingFactor ==
    \A i \in 1..Len(scaling_data_df) :
        LET r == scaling_data_df[i]
        IN IF r.RealTime # 0
           THEN r.ScalingFactor.den # 0 /\ r.ScalingFactor.num * r.RealTime = r.UserTime * r.ScalingFactor.den
           ELSE r.ScalingFactor = Inf

\* a token neither float() nor datetime.fromisoformat() accepts
Unparseable(tok) == IsRaised(float_of(tok)) /\ IsRaised(fromisoformat_timestamp(Replace(Replace(tok, "Z", "+00:00"), "+0000", "+00:00")))

\* C16: whatever the token, _parse_timestamp returns a float (it never ends
\* with an exception), and for a token that is neither an elapsed-seconds
\* number nor an ISO date and time it returns exactly 0.0.
C16_TimestampTotal ==
    ts_in # NoneStr =>
        /\ DOMAIN ts_out = {"s", "ms"}
        /\ ts_out.s \in Int /\ ts_out.ms \in 0..999
        /\ Unparseable(ts_in) => ts_out = Zero

\* a token of the ISO shape that names no day, and a token of neither shape
C16_Witness ==
    /\ ts_in \in {"2025-13-01T00:00:00.000+0000", "1:5"}
    /\ Unparseable(ts_in)
    /\ ts_out = Zero

\* the buffer holds a line that matches the structured timestamp pattern
AnyStructured(buf) == \E i \in 1..Len(buf) : buf[i].ts = "modern"

\* C17: once the first pass over the buffer is done, has_pid_tid is true
\* exactly when some line of the buffer, wherever it stands, carries a
\* structured timestamp, and every line is parsed under that one decision: the
\* lines that left a sizing entry or a region sample are exactly the lines
\* read that carry the timestamp token of the dialect of the buffer, also
\* those that stand before the first structured line.
C17_DialectDecidedOnce ==
    pc \in {"lines", "done"} =>
        /\ has_pid_tid = AnyStructured(buffer)
        /\ {sizing_entries[i].timestamp : i \in 1..Len(sizing_entries)}
              = {i \in 1..Len(lines) : classify(buffer[i], AnyStructured(buffer)) \notin {"none", "region_size"}}
        /\ Len(region_data["Eden"])
              = Cardinality({i \in 1..Len(lines) : /\ Matches(buffer[i], "region")
                                                   /\ ~Matches(buffer[i], "region_size")
                                                   /\ extract_timestamp(buffer[i], AnyStructured(buffer)) # None})

\* an elapsed-seconds start marker that stands before the only structured line
\* of the buffer is parsed as a line of the structured dialect: it leaves nothing
C17_Witness ==
    /\ pc = "done"
    /\ Len(buffer) = 2
    /\ buffer[1].ts = "trad" /\ buffer[1].cap = "eval_start" :> <<>>
    /\ buffer[2].ts = "modern" /\ buffer[2].cap = "time_based_deactivated" :> <<2>>
    /\ has_pid_tid
    /\ Len(sizing_entries) = 1
    /\ sizing_entries[1].sizing_type = "time_based_uncommit"

\* the handler of the pattern named p, alone
handler(p, entries, cur, timestamp, g, rsize) ==
    CASE p = "sizing_status" -> sizing_status(entries, cur, timestamp, g)
      [] p = "sizing_init" -> sizing_init(entries, cur, timestamp, g)
      [] p = "sizing_params" -> sizing_params(entries, cur, timestamp, g)
      [] p = "sizing_params_new" -> sizing_params_new(entries, cur, timestamp, g)
      [] p = "uncommit" -> uncommit(entries, cur, timestamp, g)
      [] p = "shrink_eval" -> shrink_eval(entries, cur, timestamp, g)
      [] p = "no_uncommit" -> no_uncommit(entries, cur, timestamp, g)
      [] p = "shrink_completed" -> shrink_completed(entries, cur, timestamp, g)
      [] p = "heap_shrink_details" -> heap_shrink_details(entries, cur, timestamp, g)
      [] p = "time_based_uncommitted" -> time_based_uncommitted(entries, cur, timestamp, g)
      [] p = "eval_start" -> eval_start(entries, cur, timestamp, g)
      [] p = "eval_scan" -> eval_scan(entries, cur, timestamp, g)
      [] p = "eval_scan_result" -> eval_scan_result(entries, cur, timestamp, g)
      [] p = "eval_found" -> eval_found(entries, cur, timestamp, g)
      [] p = "eval_found_min" -> eval_found_min(entries, cur, timestamp, g)
      [] p = "eval_found_uncommitting" -> eval_found_uncommitting(entries, cur, timestamp, g)
      [] p = "heap_eval_shrink" -> heap_eval_shrink(entries, cur, timestamp, g)
      [] p = "heap_eval_no_action" -> heap_eval_no_action(entries, cur, timestamp, g)
      [] p = "eval_summary" -> eval_summary(entries, cur, timestamp, g)
      [] p = "eval_no_action" -> eval_no_action(entries, cur, timestamp, g)
      [] p = "eval_no_action_simple" -> eval_no_action_simple(entries, cur, timestamp, g)
      [] p = "time_based_request" -> time_based_request(entries, cur, timestamp, g)
      [] p = "time_based_processing" -> time_based_processing(entries, cur, timestamp, g)
      [] p = "time_based_deactivated" -> time_based_deactivated(entries, cur, timestamp, g, rsize)
      [] p = "time_based_candidate" -> time_based_candidate(entries, cur, timestamp, g)
      [] p = "time_based_deactivating_region" -> time_based_deactivating_region(entries, cur, timestamp, g)
      [] p = "region_transition" -> region_transition(entries, cur, timestamp, g)

\* C18: of the patterns that match a line, only the one that comes first in the
\* order of the code has its handler run: the entries and the accumulator
\* after the line are those that handler alone leaves.
C18_FirstMatchWins ==
    [][\A k \in 1..Len(SizingPatterns) : Read(SizingPatterns[k]) =>
          LET p == SizingPatterns[k]
              ln == lines'[Len(lines')]
              r == handler(p, sizing_entries, current_eval, ln.tok, ln.cap[p], region_size)
          IN sizing_entries' = r.entries /\ current_eval' = r.cur]_vars

\* a line on which the start marker and the deactivated summary both match,
\* read after a scan result: only the start marker was handled
C18_Witness ==
    /\ Len(lines) = 2
    /\ classify(lines[1], has_pid_tid) = "eval_scan_result"
    /\ DOMAIN lines[2].cap = {"eval_start", "time_based_deactivated"}
    /\ classify(lines[2], has_pid_tid) = "eval_start"
    /\ Len(sizing_entries) = 2
    /\ sizing_entries[2].sizing_type = "uncommit_evaluation_start"
    /\ current_eval = [timestamp |-> 2]

\* C19 (as claimed): an entry that was appended to sizing_entries keeps every
\* field for the rest of the pass: a line only appends entries.
C19_EntriesImmutable ==
    [][/\ Len(sizing_entries') >= Len(sizing_entries)
       /\ SubSeq(sizing_entries', 1, Len(sizing_entries)) = sizing_entries]_vars

\* C20 (as claimed): when parse_log_content has parsed a buffer, the fields of
\* the parser (entries, region data, dialect flag, region size, accumulator)
\* are those a new parser has after parsing that buffer alone, also when the
\* parser parsed another buffer before.
C20_BufferAlone ==
    pc = "done" => ParserState = parse_log_content(NewParser, buffer)

(***************************************************************************)
(* Uploads.  A Dash upload hands the callback update_output the payload of *)
(* each file as a data URL, "data:<type>;base64,<data>", and the file's    *)
(* name.  A payload is a string; the bytes it decodes to are a sequence of *)
(* numbers 0..255 and a decoded text is the sequence of its code points.   *)
(***************************************************************************)
\* files of one upload (heap_plotter's Upload has multiple=True)
MaxFiles == 3

\* the printable ASCII characters in code order: the space (32) to the
\* underscore (95), and the letter a (97) to the tilde (126)
Ascii == " !\"#$%&'()*+,-./0123456789:;<=>?@ABCDEFGHIJKLMNOPQRSTUVWXYZ[\\]^_"

AsciiLow == "abcdefghijklmnopqrstuvwxyz{|}~"

ord(c) ==
    LET hits == {i \in 1..Len(Ascii) : Char(Ascii, i) = c}
    IN IF hits # {} THEN 31 + (CHOOSE i \in hits : TRUE)
       ELSE 96 + (CHOOSE i \in 1..Len(AsciiLow) : Char(AsciiLow, i) = c)

\* the text of a str, as code points
str(string) == [i \in 1..Len(string) |-> ord(Char(string, i))]

Upper == "ABCDEFGHIJKLMNOPQRSTUVWXYZ"

Lower == "abcdefghijklmnopqrstuvwxyz"

\* str.lower()
RECURSIVE lower(_)
lower(string) ==
    IF string = "" THEN ""
    ELSE LET c == Char(string, 1)
             hits == {i \in 1..26 : Char(Upper, i) = c}
         IN (IF hits = {} THEN c ELSE Char(Lower, CHOOSE i \in hits : TRUE)) \o lower(SubSeq(string, 2, Len(string)))

\* str.count(c)
Count(string, c) == Cardinality({i \in 1..Len(string) : Char(string, i) = c})

\* str.split(',', 1)[1] of a string with a comma in it
after_comma(string) == SubSeq(string, FirstOf(string, {","}) + 1, Len(string))

Bytes(b) == [bytes |-> b]

Text(t) == [text |-> t]

B64 == "ABCDEFGHIJKLMNOPQRSTUVWXYZabcdefghijklmnopqrstuvwxyz0123456789+/"

\* the six bits of a base64 character, 64 for a character outside the alphabet
b64_value(c) ==
    LET hits == {i \in 1..64 : Char(B64, i) = c}
    IN IF hits = {} THEN 64 ELSE (CHOOSE i \in hits : TRUE) - 1

\* binascii.a2b_base64, not strict: characters outside the alphabet are
\* skipped, a completed pad sequence ends the data, and data that stops inside
\* a quad raises binascii.Error
RECURSIVE a2b_base64(_, _, _, _, _)
a2b_base64(string, quad_pos, leftchar, pads, out) ==
    IF string = "" THEN (IF quad_pos # 0 THEN Raised("binascii.Error") ELSE Bytes(out))
    ELSE LET c == Char(string, 1)
             rest == SubSeq(string, 2, Len(string))
             v == b64_value(c)
         IN IF c = "="
            THEN IF quad_pos >= 2 /\ quad_pos + pads + 1 >= 4 THEN Bytes(out)
                 ELSE a2b_base64(rest, quad_pos, leftchar, IF quad_pos >= 2 THEN pads + 1 ELSE pads, out)
            ELSE IF v >= 64 THEN a2b_base64(rest, quad_pos, leftchar, pads, out)
            ELSE CASE quad_pos = 0 -> a2b_base64(rest, 1, v, 0, out)
                   [] quad_pos = 1 -> a2b_base64(rest, 2, v % 16, 0, Append(out, leftchar * 4 + (v \div 16)))
                   [] quad_pos = 2 -> a2b_base64(rest, 3, v % 4, 0, Append(out, leftchar * 16 + (v \div 4)))
                   [] quad_pos = 3 -> a2b_base64(rest, 0, 0, 0, Append(out, leftchar * 64 + v))

\* base64.b64decode(str)
b64decode(string) == a2b_base64(string, 0, 0, 0, <<>>)

\* U+FFFD, what errors='replace' puts for bytes that are not UTF-8
Replacement == 65533

IsCont(b, i) == i <= Len(b) /\ b[i] >= 128 /\ b[i] <= 191

\* the bounds of the second byte of a sequence that starts with lead
SecondLow(lead) == IF lead = 224 THEN 160 ELSE IF lead = 240 THEN 144 ELSE 128

SecondHigh(lead) == IF lead = 237 THEN 159 ELSE IF lead = 244 THEN 143 ELSE 191

\* the bytes a sequence that starts with lead is made of, 0 for no lead byte
SeqLen(lead) ==
    IF lead < 128 THEN 1
    ELSE IF lead >= 194 /\ lead <= 223 THEN 2
    ELSE IF lead >= 224 /\ lead <= 239 THEN 3
    ELSE IF lead >= 240 /\ lead <= 244 THEN 4
    ELSE 0

\* the bytes from position i on that begin a well-formed sequence
ValidPrefix(b, i) ==
    LET n == SeqLen(b[i])
        second == i + 1 <= Len(b) /\ b[i + 1] >= SecondLow(b[i]) /\ b[i + 1] <= SecondHigh(b[i])
    IN IF n <= 1 THEN 1
       ELSE IF ~second THEN 1
       ELSE IF n = 2 THEN 2
       ELSE IF ~IsCont(b, i + 2) THEN 2
       ELSE IF n = 3 THEN 3
       ELSE IF ~IsCont(b, i + 3) THEN 3
       ELSE 4

CodePoint(b, i, n) ==
    CASE n = 1 -> b[i]
      [] n = 2 -> (b[i] % 32) * 64 + (b[i + 1] % 64)
      [] n = 3 -> (b[i] % 16) * 4096 + (b[i + 1] % 64) * 64 + (b[i + 2] % 64)
      [] n = 4 -> (b[i] % 8) * 262144 + (b[i + 1] % 64) * 4096 + (b[i + 2] % 64) * 64 + (b[i + 3] % 64)

\* bytes.decode('utf-8', errors): a byte sequence that is not well formed
\* raises UnicodeDecodeError when errors is 'strict' and becomes one U+FFFD
\* when errors is 'replace'
RECURSIVE utf8_decode(_, _, _, _)
utf8_decode(b, i, errors, out) ==
    IF i > Len(b) THEN Text(out)
    ELSE LET n == SeqLen(b[i])
             k == ValidPrefix(b, i)
         IN IF n # 0 /\ k = n THEN utf8_decode(b, i + n, errors, Append(out, CodePoint(b, i, n)))
            ELSE IF errors = "strict" THEN Raised("UnicodeDecodeError")
            ELSE utf8_decode(b, i + k, errors, Append(out, Replacement))

decode(b, errors) == utf8_decode(b, 1, errors, <<>>)

(***************************************************************************)
(* The upload callbacks.  A callback either returns its outputs or lets an *)
(* exception leave it.                                                     *)
(***************************************************************************)
Returned(message) == [kind |-> "returned", message |-> message]

Propagated(raised) == [kind |-> "raised", exc |-> raised.exc]

\* what a browser hands over for a file that reads "a", one that reads "b",
\* an empty file, a file that is the byte 0xff, and two payloads that are not
\* a data URL of a whole file: one cut inside a quad and one with no header
Payloads == {"data:;base64,YQ==", "data:;base64,Yg==", "data:;base64,", "data:;base64,/w==", "data:;base64,YQ", "YQ=="}

FileNames == {"gc.log", "gc-sizing.log", "app-GC-Sizing.LOG"}

\* the code point of "[", which every pattern of the log parsers starts with
Bracket == 91

\* heap_plotter.update_output, one file: the text of raw_content
decoded_text(raw_content) ==
    LET content_str == IF Contains(raw_content, ",") THEN after_comma(raw_content) ELSE raw_content
        decoded_bytes == b64decode(content_str)
    IN IF IsRaised(decoded_bytes) THEN str(content_str)
       ELSE decode(decoded_bytes.bytes, "replace").text

\* decoded_text of every payload of the model, computed once
PayloadText == [raw_content \in Payloads |-> decoded_text(raw_content)]

\* the (decoded_text, name) pairs in upload order; idx remembers the place of
\* the file in the upload
decoded_of(content_items, filenames) ==
    [idx \in 1..Len(content_items) |->
        [text |-> PayloadText[content_items[idx]], name |-> IF idx <= Len(filenames) THEN filenames[idx] ELSE NoneStr, idx |-> idx]]

\* changed: the name is tested as it was uploaded, without lower()
sort_key_cased(item) == IF item.name # NoneStr /\ item.name # "" /\ Contains(item.name, "gc-sizing") THEN 1 ELSE 0

\* key=lambda item: 1 if item[1] and 'gc-sizing' in item[1].lower() else 0
sort_key(item) == IF item.name # NoneStr /\ item.name # "" /\ Contains(lower(item.name), "gc-sizing") THEN 1 ELSE 0

\* the key of every name of the model, computed once
NameKey == [name \in FileNames \cup {NoneStr} |-> sort_key([name |-> name])]

\* list.sort(key=...): an item goes behind the items whose key is not larger
insort(sorted, item) ==
    LET behind == {i \in 1..Len(sorted) : NameKey[sorted[i].name] > NameKey[item.name]}
        at == IF behind = {} THEN Len(sorted) + 1 ELSE CHOOSE i \in behind : \A j \in behind : i <= j
    IN SubSeq(sorted, 1, at - 1) \o <<item>> \o SubSeq(sorted, at, Len(sorted))

RECURSIVE sort(_)
sort(entries) == IF entries = <<>> THEN <<>> ELSE insort(sort(SubSeq(entries, 1, Len(entries) - 1)), entries[Len(entries)])

\* "\n".join(entry for entry, _ in decoded_entries if entry)
RECURSIVE join(_)
join(entries) ==
    IF entries = <<>> THEN <<>>
    ELSE LET head == join(SubSeq(entries, 1, Len(entries) - 1))
             entry == entries[Len(entries)].text
         IN IF entry = <<>> THEN head
            ELSE IF head = <<>> THEN entry
            ELSE head \o <<10>> \o entry

\* a browser sends the files of an upload and their names
Upload ==
    /\ app = NoneStr
    /\ \E a \in {"heap_plotter", "zgc_plotter", "genzgc_plotter"} :
        /\ app' = a
        /\ IF a = "heap_plotter"
           THEN \E n \in 1..MaxFiles : \E k \in 0..n :
                    /\ contents' \in [1..n -> Payloads]
                    /\ filename' \in [1..k -> FileNames]
           ELSE /\ contents' \in Payloads
                /\ filename' \in FileNames
    /\ UNCHANGED <<decoded_entries, combined_log_content, result>>
    /\ UNCHANGED <<sizing_vars, name_vars, token_vars, heap_vars, buffer_vars, pause_summary>>

\* heap_plotter.update_output on a payload that is not None.  No decoded text
\* of Payloads holds a "[", so no line of the combined log matches a pattern
\* of G1EnhancedParser or of parse_gc_log: both frames come back empty and the
\* callback returns its message for a log without GC entries.
update_output ==
    /\ app = "heap_plotter"
    /\ result = NoResult
    /\ LET entries == sort(decoded_of(contents, filename))
           combined == join(entries)
       IN /\ \A i \in 1..Len(combined) : combined[i] # Bracket
          /\ decoded_entries' = entries
          /\ combined_log_content' = combined
          /\ result' = IF entries = <<>> THEN Returned("Uploaded file(s) could not be read")
                       ELSE Returned("The log file could not be parsed. Please check the file format and ensure it contains GC log entries.")
    /\ UNCHANGED <<app, contents, filename>>
    /\ UNCHANGED <<sizing_vars, name_vars, token_vars, heap_vars, buffer_vars, pause_summary>>

\* update_output of zgc_plotter and of genzgc_plotter (the same statements):
\* content_type, content_string = contents.split(','), b64decode, decode; the
\* text of Payloads matches no pattern of parse_gc_log, so jdk_version is None
single_update_output(contents_, filename_) ==
    IF Count(contents_, ",") # 1 THEN Propagated(Raised("ValueError"))
    ELSE LET decoded == b64decode(after_comma(contents_))
         IN IF IsRaised(decoded) THEN Propagated(decoded)
            ELSE LET log_content == decode(decoded.bytes, "strict")
                 IN IF IsRaised(log_content) THEN Propagated(log_content)
                    ELSE Returned("Selected file: " \o filename_)

\* zgc_plotter.update_output on a payload that is not None
zgc_update_output ==
    /\ app = "zgc_plotter"
    /\ result = NoResult
    /\ result' = single_update_output(contents, filename)
    /\ UNCHANGED <<app, contents, filename, decoded_entries, combined_log_content>>
    /\ UNCHANGED <<sizing_vars, name_vars, token_vars, heap_vars, buffer_vars, pause_summary>>

\* genzgc_plotter.update_output on a payload that is not None
genzgc_update_output ==
    /\ app = "genzgc_plotter"
    /\ result = NoResult
    /\ result' = single_update_output(contents, filename)
    /\ UNCHANGED <<app, contents, filename, decoded_entries, combined_log_content>>
    /\ UNCHANGED <<sizing_vars, name_vars, token_vars, heap_vars, buffer_vars, pause_summary>>

NextUpload == Upload \/ update_output \/ zgc_update_output \/ genzgc_update_output

SpecUpload == Init /\ [][NextUpload]_vars

\* C21: every upload callback returns a result for every payload that is not
\* None: no exception raised while decoding or parsing leaves the callback.
C21_UploadAlwaysReturns == result.kind # "raised"

\* the upload order of the entries of decoded_entries
UploadOrder == [i \in 1..Len(decoded_entries) |-> decoded_entries[i].idx]

\* a name that contains 'gc-sizing' in any case
IsSizingName(name) == name \in {"gc-sizing.log", "app-GC-Sizing.LOG"}

\* C24: in the combined order of a multi-file upload every file whose name
\* contains 'gc-sizing' in any case comes after every other file, files with
\* no name among the others, and each of the two groups keeps its upload order.
C24_SizingFilesLast ==
    (app = "heap_plotter" /\ result # NoResult) =>
        /\ Len(decoded_entries) = Len(contents)
        /\ \A i, j \in 1..Len(decoded_entries) :
            i < j => LET a == decoded_entries[i]
                         b == decoded_entries[j]
                     IN /\ ~(IsSizingName(a.name) /\ ~IsSizingName(b.name))
                        /\ (IsSizingName(a.name) <=> IsSizingName(b.name)) => a.idx < b.idx
        /\ \A i \in 1..Len(decoded_entries) :
            LET e == decoded_entries[i]
            IN /\ e.text = PayloadText[contents[e.idx]]
               /\ e.name = IF e.idx <= Len(filename) THEN filename[e.idx] ELSE NoneStr

\* three files: a sizing log in capitals first, then a named log, then a file
\* with no name, which end up behind one another in the order 2, 3, 1
C24_Witness ==
    /\ app = "heap_plotter"
    /\ result # NoResult
    /\ Len(contents) = 3
    /\ filename = <<"app-GC-Sizing.LOG", "gc.log">>
    /\ UploadOrder = <<2, 3, 1>>

\* total_runtime of the batch that was summarised
TotalRuntime == MaxRuntime(data_df)

\* a string of digits, a point and two digits
IsTwoDecimals(string) ==
    /\ Len(string) >= 4
    /\ Char(string, Len(string) - 2) = "."
    /\ AllDigits(SubSeq(string, 1, Len(string) - 3))
    /\ AllDigits(SubSeq(string, Len(string) - 1, Len(string)))

\* the hundredths a string of that form denotes
HundredthsOf(string) == NumVal(SubSeq(string, 1, Len(string) - 3)) * 100 + NumVal(SubSeq(string, Len(string) - 1, Len(string)))

C27_ZeroDenominator ==
    (heap_pc = "plotted" /\ TotalRuntime = Zero /\ \E i \in 1..Len(lines) : Matches(lines[i], "pause")) =>
        \A i \in 1..Len(pause_summary) : pause_summary[i].Overhead = "~0" \/ IsTwoDecimals(pause_summary[i].Overhead)

\* G1EnhancedParser.get_region_data: the samples as they were appended, a
\* tuple (runtime, before, after) for each region line of the category
get_region_data == region_data

\* C23: for two consecutive Eden samples at times that grow, what the region
\* stage hands on for the later sample holds, besides its time and its two
\* counts, the occupancy rate (its count before GC minus the previous count
\* after GC) * region_size_mb / (the seconds between them).
C23_EdenOccupancyRate ==
    pc = "done" =>
        \A i \in 2..Len(get_region_data["Eden"]) :
            LET prev == get_region_data["Eden"][i - 1]
                cur == get_region_data["Eden"][i]
                dt == TimeSub(cur[1], prev[1])
            IN (TimeLeq(prev[1], cur[1]) /\ dt # Zero) =>
                \E k \in DOMAIN cur \ {1, 2, 3} : cur[k] * (dt.s * 1000 + dt.ms) = (cur[2] - prev[3]) * region_size * 1000

\* C25: within one evaluation each line of the sequence merges into the
\* accumulator without dropping what earlier lines put there: after [start,
\* scan result (5 inactive of 20), a decision line, deactivated 2 oldest empty
\* regions] the time_based_uncommit entry has total_empty_regions = 20.
C25_PartialLinesMerge ==
    \A decision \in {"eval_found_uncommitting" :> <<5, 2, 32>>, "eval_summary" :> <<30>>} :
        (/\ Fed(<<"eval_start" :> <<>>, "eval_scan_result" :> <<5, 20>>, decision, "time_based_deactivated" :> <<2>>>>)
         /\ \A i \in 1..Len(lines) : lines[i].ev = 1) =>
            /\ LastEntry(sizing_entries).sizing_type = "time_based_uncommit"
            /\ LastEntry(sizing_entries).total_empty_regions = 20

\* C26: 'found I inactive regions (requested R)' emits one entry, a
\* time_based_evaluation_shrink iff I > 0 and else a
\* time_based_evaluation_no_uncommit that leaves the accumulator empty; 'found
\* I inactive candidates (min required: M)' emits a shrink entry with
\* requested_regions = M iff I >= M, and else a no_uncommit entry without
\* requested_regions that leaves the accumulator empty.
C26_FoundOutcome ==
    [][/\ Read("eval_found") =>
            LET g == lines'[Len(lines')].cap["eval_found"]
                e == LastEntry(sizing_entries')
            IN /\ AppendedOne
               /\ e.inactive_regions = g[1]
               /\ e.requested_regions = g[2]
               /\ g[1] > 0 => e.sizing_type = "time_based_evaluation_shrink" /\ current_eval' # EmptyDict
               /\ g[1] = 0 => e.sizing_type = "time_based_evaluation_no_uncommit" /\ current_eval' = EmptyDict
       /\ Read("eval_found_min") =>
            LET g == lines'[Len(lines')].cap["eval_found_min"]
                e == LastEntry(sizing_entries')
            IN /\ AppendedOne
               /\ e.inactive_regions = g[1]
               /\ g[1] >= g[2] => /\ e.sizing_type = "time_based_evaluation_shrink"
                                  /\ e.requested_regions = g[2]
                                  /\ current_eval' # EmptyDict
               /\ g[1] < g[2] => /\ e.sizing_type = "time_based_evaluation_no_uncommit"
                                 /\ e.requested_regions = None
                                 /\ current_eval' = EmptyDict]_vars

\* no inactive region found while the accumulator was filled, then as many
\* candidates as the minimum
C26_Witness ==
    /\ Fed(<<"eval_found" :> <<0, 4>>, "eval_found_min" :> <<3, 3>>>>)
    /\ sizing_entries[1].sizing_type = "time_based_evaluation_no_uncommit"
    /\ sizing_entries[2].sizing_type = "time_based_evaluation_shrink"
    /\ sizing_entries[2].requested_regions = 3
    /\ current_eval # EmptyDict

(***************************************************************************)
(* Lines without the timestamp token of the detected dialect.              *)
(***************************************************************************)
\* the line carries no timestamp token of the dialect the pre-pass detected:
\* no token at all, or the token of the other dialect
Unstamped(ln) == ln.ts # (IF has_pid_tid THEN "modern" ELSE "trad")

\* C28: a step that reads a line without the timestamp token of the detected
\* dialect appends no sizing entry and leaves the accumulator (and the region
\* data, the region size and the two flags) as they were, whatever sizing or
\* region grammar its text matches; the one exception is the region-size
\* header, which sets the region size and nothing else.
C28_UnstampedLineIgnored ==
    [][(Len(lines') = Len(lines) + 1 /\ Unstamped(lines'[Len(lines')])) =>
          LET ln == lines'[Len(lines')]
          IN IF Matches(ln, "region_size")
             THEN /\ region_size' = ln.cap["region_size"][1]
                  /\ UNCHANGED <<region_data, sizing_entries, has_pid_tid, has_sizing_data, current_eval>>
             ELSE UNCHANGED parser_vars]_vars

\* a deactivated summary without the token read while an evaluation was open:
\* no entry beside the start marker's, and the accumulator still holds what
\* the start marker wrote
C28_Witness ==
    /\ Len(lines) = 2
    /\ Matches(lines[1], "eval_start")
    /\ ~Unstamped(lines[1])
    /\ Unstamped(line)
    /\ Matches(line, "time_based_deactivated")
    /\ current_eval # EmptyDict
    /\ Len(sizing_entries) = 1

(***************************************************************************)
(* The entries of type time_based_uncommit.                                *)
(***************************************************************************)
\* C29: every time_based_uncommit entry carries inactive_regions,
\* uncommit_regions and uncommit_mb, none of them None, and its uncommit_mb
\* is not negative.
C29_UncommitEntryComplete ==
    \A i \in 1..Len(sizing_entries) :
        sizing_entries[i].sizing_type = "time_based_uncommit" =>
            /\ sizing_entries[i].inactive_regions # None
            /\ sizing_entries[i].uncommit_regions # None
            /\ sizing_entries[i].uncommit_mb # None
            /\ sizing_entries[i].uncommit_mb >= 0

\* both producers have run: the legacy summary with its three captured
\* numbers, and a deactivated summary outside any evaluation and before any
\* region-size header, whose inactive_regions and uncommit_mb are defaults
C29_Witness ==
    /\ Fed(<<"uncommit" :> <<3, 48, 5>>, "time_based_deactivated" :> <<2>>>>)
    /\ Len(sizing_entries) = 2
    /\ sizing_entries[1].uncommit_mb = 48
    /\ sizing_entries[2].inactive_regions = 2
    /\ sizing_entries[2].uncommit_regions = 2
    /\ sizing_entries[2].uncommit_mb = 0

(***************************************************************************)
(* The two pause parsers of heap_plotter.py on the same captured groups.   *)
(***************************************************************************)
\* what each parser makes of the timestamp tokens and of the captured groups
\* of the pause lines (tabulated once)
elapsed_runtime == [tok \in ElapsedTokens |-> float_of(tok)]

structured_runtime == [tok \in StructuredTokens |-> parse_timestamp(tok)]

elapsed_pause_name == [g \in PauseGroups |-> build_pause_name(g[1], g[2], g[3])]

structured_pause_name == [g \in PauseGroups |-> build_pause_name_modern(g[1], g[2], g[3])]

\* the loop of parse_gc_log over the lines of a buffer: the list gc_data
\* after the last line (prev is prev_total_heap)
RECURSIVE parse_gc_log_rows(_, _, _)
parse_gc_log_rows(buf, rows, prev) ==
    IF buf = <<>> THEN rows
    ELSE LET ln == Head(buf)
             g == ln.cap["pause"]
         IN IF Matches(ln, "pause")
            THEN parse_gc_log_rows(Tail(buf), Append(rows, pause_row(elapsed_runtime[ln.tok], g, prev, elapsed_pause_name[g])), g[6])
            ELSE parse_gc_log_rows(Tail(buf), rows, prev)

\* the loop of parse_modern_gc_log over the lines of a buffer
RECURSIVE parse_modern_gc_log_rows(_, _, _)
parse_modern_gc_log_rows(buf, rows, prev) ==
    IF buf = <<>> THEN rows
    ELSE LET ln == Head(buf)
             g == ln.cap["pause"]
         IN IF Matches(ln, "pause")
            THEN parse_modern_gc_log_rows(Tail(buf), Append(rows, pause_row(structured_runtime[ln.tok], g, prev, structured_pause_name[g])), g[6])
            ELSE parse_modern_gc_log_rows(Tail(buf), rows, prev)

\* a timestamp token of the other dialect for a line that carries one
OtherToken(tok) ==
    IF tok = NoneStr THEN NoneStr
    ELSE IF tok \in ElapsedTokens THEN "2025-01-01T00:00:0" \o tok \o "+0000"
    ELSE IF tok = "2025-01-01T00:00:03.250+0000" THEN "3.250"
    ELSE "1.500"

\* the buffer of the other dialect on which the patterns capture the same
\* groups, line by line
OtherBuffer(buf) == [i \in 1..Len(buf) |-> [tok |-> OtherToken(buf[i].tok), cap |-> buf[i].cap]]

\* the columns of the pause records without Runtime
PauseContent(rows) ==
    [i \in 1..Len(rows) |-> [PauseName |-> rows[i].PauseName, HeapBefore |-> rows[i].HeapBefore, HeapAfter |-> rows[i].HeapAfter, TotalHeap |-> rows[i].TotalHeap, TotalHeapBefore |-> rows[i].TotalHeapBefore, Duration |-> rows[i].Duration]]

\* the pause records of the other parser on the other dialect's buffer
OtherRows ==
    IF has_pid_tid THEN parse_gc_log_rows(OtherBuffer(lines), <<>>, 0)
    ELSE parse_modern_gc_log_rows(OtherBuffer(lines), <<>>, 0)

====
